---- MODULE Spec2Model ----
(***************************************************************************)
(* Alerting pipeline of the API monitoring system: the alert manager       *)
(* (src/src/alerting/alert_manager.py), the alert generator                *)
(* (src/src/alerting/alert_generator.py), the alert routes of the HTTP API *)
(* (src/src/api/routes.py) and the MongoDB collections they work on        *)
(* (src/src/storage/database.py).                                          *)
(*                                                                         *)
(* Severities are floats in [0,1] in the program; the model counts them in *)
(* hundredths (0.9 is 90).  Strings that the program concatenates and      *)
(* splits (api ids, anomaly types, group keys) are sequences of characters.*)
(***************************************************************************)
EXTENDS Integers, Sequences, FiniteSets, TLC

----------------------------------------------------------------------------
(* Bounds of the model *)

\* alert documents the alerts collection can hold
MaxAlerts == 2
\* anomaly documents the anomalies collection can hold
MaxAnoms == 2
\* longest batch handed to _send_notifications
MaxBatch == 2
\* times one alert id is handed to _send_notifications in one run
MaxPasses == 2
\* iterations of the loop counted since the last anomaly arrived
MaxRuns == 2

----------------------------------------------------------------------------
(* Program constants *)

\* alert_manager.py:192  len(self.alert_cache) > 1000
CacheLimit == 1000
\* alert_manager.py:193  list(self.alert_cache)[-500:]
CacheKeep == 500
\* alert_generator.py:22-24  severity_thresholds, in hundredths
ThresholdCritical == 90
ThresholdHigh == 70
ThresholdMedium == 40

AlertIds == 1..MaxAlerts
AnomIds == 1..MaxAnoms

\* main.py:88 creates the manager whose loop runs; routes.py:19 creates the
\* manager the HTTP routes call.
Managers == {"main", "routes"}

\* alert_manager.py:37-60  the configured channels, in dict order
Notifiers == <<"slack", "email">>

Actors == {"alice", "bob"}
Durations == {-5, 0, 30}

\* api ids and anomaly types, as character sequences
Apis == {<<"A">>, <<"A", ":", "x">>}
Types == {<<"x">>, <<"y">>}
Severities == {39, 40, 69, 70, 89, 90}
Environments == {"aws", "gcp"}

VARIABLES
    mongo_available,  \* Database.mongo_available, set once by connect()
    alerts,           \* the alerts collection: alert id -> document
    anomalies,        \* the anomalies collection: anomaly id -> document
    alert_cache,      \* AlertManager.alert_cache of each manager instance
    running,          \* AlertManager.running of the main manager
    loop_pc,          \* where the _alerting_loop task of the main manager is
    cycle,            \* locals of the last iteration of _alerting_loop
    notif,            \* the _send_notifications call in progress on main
    passes,           \* alert id -> times it was handed to _send_notifications
    sent,             \* send_alert calls received: <<channel, alert id>> -> count
    evicted,          \* ids that were removed from the main manager's cache
    last,             \* the call that completed last and what it returned
    api_sources,      \* ids of the documents of the api_sources collection
    analyzers,        \* AnalyzerManager.analyzers: api id -> analyzer list
    history,          \* the history dict of each analyzer object
    analysis_pc,      \* where the _analysis_loop task is
    tasks,            \* sub-tasks of the running cycle not yet completed
    analysis          \* the analyzer or scheduler call that completed last

\* the state of the analyzers and of their scheduler
analysisVars == <<api_sources, analyzers, history, analysis_pc, tasks, analysis>>

\* the state of the alerting side
alertingVars == <<mongo_available, alerts, anomalies, alert_cache, running,
                  loop_pc, cycle, notif, passes, sent, evicted, last>>

vars == <<mongo_available, alerts, anomalies, alert_cache, running, loop_pc,
          cycle, notif, passes, sent, evicted, last, api_sources, analyzers,
          history, analysis_pc, tasks, analysis>>

----------------------------------------------------------------------------
(* Sequences *)

Range(s) == {s[i] : i \in 1..Len(s)}

RECURSIVE SeqMax(_)
SeqMax(s) ==
    IF Len(s) = 1 THEN s[1]
    ELSE LET m == SeqMax(Tail(s)) IN IF s[1] >= m THEN s[1] ELSE m

\* the ids of S in descending order
RECURSIVE Descending(_)
Descending(S) ==
    IF S = {} THEN <<>>
    ELSE LET m == CHOOSE x \in S : \A y \in S : y <= x
         IN <<m>> \o Descending(S \ {m})

Min(a, b) == IF a <= b THEN a ELSE b

----------------------------------------------------------------------------
(* The alerts collection (database.py, "Alert methods") *)

\* Alert.severity of the documents the model starts with and of the alert
\* objects handed to _send_notifications: one of each bucket, one upper-cased
SeverityOf(a) ==
    CASE a % 4 = 1 -> "critical"
      [] a % 4 = 2 -> "medium"
      [] a % 4 = 3 -> "HIGH"
      [] OTHER     -> "low"

\* an alert document as the collection holds it when the service starts
StoredAlert(a) ==
    [status       |-> "open",
     severity     |-> SeverityOf(a),
     apis         |-> {<<"A">>},
     environments |-> {IF a % 2 = 1 THEN "aws" ELSE "gcp"},
     metadata     |-> {"anomaly_count"},
     anomalies    |-> <<a>>,
     title        |-> <<"A", ":", "x">>,
     created_at   |-> a,
     updated_by   |-> "nobody"]

\* Database.get_alert: the document, or None
get_alert(coll, alert_id) ==
    IF alert_id \in DOMAIN coll
    THEN [found |-> TRUE, doc |-> coll[alert_id]]
    ELSE [found |-> FALSE]

\* Database.update_alert_status: update_one({"id": alert_id}, {"$set": ...})
\* update_one({"id": alert_id}, {"$set": updates}): the fields of `updates`
\* replace or extend those of the matching document; no match, no change
UpdateOne(coll, id, updates) ==
    IF id \in DOMAIN coll
    THEN [coll EXCEPT ![id] =
            [k \in DOMAIN @ \cup DOMAIN updates |->
                IF k \in DOMAIN updates THEN updates[k] ELSE @[k]]]
    ELSE coll

\* Database.update_alert_status (updated_at is a clock value, left out)
update_alert_status(coll, alert_id, status, updated_by) ==
    UpdateOne(coll, alert_id, [status |-> status, updated_by |-> updated_by])

\* Database.update_alert
update_alert(coll, alert_id, updates) ==
    UpdateOne(coll, alert_id, updates)

\* Database.store_alerts: InsertOne(alert.dict()) for each alert
RECURSIVE store_alerts(_, _)
store_alerts(coll, new) ==
    IF new = <<>> THEN coll
    ELSE store_alerts(
            [a \in DOMAIN coll \cup {new[1].id} |->
                IF a = new[1].id THEN new[1] ELSE coll[a]],
            Tail(new))

\* database.py:897  limit: int = 100
GetAlertsLimit == 100

\* Database.get_alerts: the ids of the matching documents, newest first
\* (ids grow with created_at), at most `limit` of them.  The api filter
\* <<>> and the environment filter "any" are the Python None.
get_alerts(coll, statuses, api_id, environment) ==
    LET Has(a, field, value) ==
            field \in DOMAIN coll[a] /\ value \in coll[a][field]
        match == {a \in DOMAIN coll :
                    /\ (api_id = <<>> \/ Has(a, "apis", api_id))
                    /\ coll[a].status \in statuses
                    /\ (environment = "any" \/ Has(a, "environments", environment))}
        sorted == Descending(match)
    IN SubSeq(sorted, 1, Min(Len(sorted), GetAlertsLimit))

----------------------------------------------------------------------------
(* AlertManager: lifecycle operations (alert_manager.py:198-330).  Each     *)
(* operator gives the collection and the manager's cache after the call and *)
(* what the call logged; `fault` says that the database call raised.        *)

\* a resolve_alert without the availability check of alert_manager.py:207
resolve_alert_unguarded(m, alert_id, resolved_by, fault) ==
    [alerts |-> update_alert_status(alerts, alert_id, "resolved", resolved_by),
     alert_cache |-> [alert_cache EXCEPT ![m] = @ \ {alert_id}],
     out |-> "done"]

\* AlertManager.resolve_alert
resolve_alert(m, alert_id, resolved_by, fault) ==
    IF ~mongo_available
    THEN [alerts |-> alerts, alert_cache |-> alert_cache, out |-> "unavailable"]
    ELSE IF fault
    THEN [alerts |-> alerts, alert_cache |-> alert_cache, out |-> "error"]
    ELSE [alerts |-> update_alert_status(alerts, alert_id, "resolved", resolved_by),
          alert_cache |-> [alert_cache EXCEPT ![m] = @ \ {alert_id}],
          out |-> "done"]

\* AlertManager.acknowledge_alert
acknowledge_alert(m, alert_id, acknowledged_by, fault) ==
    IF ~mongo_available
    THEN [alerts |-> alerts, alert_cache |-> alert_cache, out |-> "unavailable"]
    ELSE IF fault
    THEN [alerts |-> alerts, alert_cache |-> alert_cache, out |-> "error"]
    ELSE [alerts |-> update_alert_status(alerts, alert_id, "acknowledged", acknowledged_by),
          alert_cache |-> alert_cache,
          out |-> "done"]

\* a snooze_alert that writes its two metadata keys alone
snooze_alert_fresh_metadata(m, alert_id, duration_minutes, snoozed_by, fault) ==
    IF ~mongo_available \/ fault \/ alert_id \notin DOMAIN alerts
    THEN [alerts |-> alerts, alert_cache |-> alert_cache, out |-> "error"]
    ELSE [alerts |-> update_alert(alerts, alert_id,
               [status     |-> "snoozed",
                updated_by |-> snoozed_by,
                metadata   |-> {"snoozed_by", "snooze_duration_minutes"}]),
          alert_cache |-> [alert_cache EXCEPT ![m] = @ \ {alert_id}],
          out |-> "done"]

\* AlertManager.snooze_alert.  The resume time (now + duration) and
\* updated_at are clock values and are left out of the document.
snooze_alert(m, alert_id, duration_minutes, snoozed_by, fault) ==
    IF ~mongo_available
    THEN [alerts |-> alerts, alert_cache |-> alert_cache, out |-> "unavailable"]
    ELSE IF fault
    THEN [alerts |-> alerts, alert_cache |-> alert_cache, out |-> "error"]
    ELSE LET alert == get_alert(alerts, alert_id) IN
         IF ~alert.found
         THEN [alerts |-> alerts, alert_cache |-> alert_cache, out |-> "not_found"]
         ELSE [alerts |-> update_alert(alerts, alert_id,
                    [status     |-> "snoozed",
                     updated_by |-> snoozed_by,
                     metadata   |-> alert.doc.metadata
                                      \cup {"snoozed_by", "snooze_duration_minutes"}]),
               alert_cache |-> [alert_cache EXCEPT ![m] = @ \ {alert_id}],
               out |-> "done"]

\* a get_active_alerts that counts snoozed alerts as active
get_active_alerts_with_snoozed(api_id, environment) ==
    IF ~mongo_available
    THEN <<>>
    ELSE get_alerts(alerts, {"open", "acknowledged", "snoozed"}, api_id, environment)

\* AlertManager.get_active_alerts
get_active_alerts(api_id, environment) ==
    IF ~mongo_available
    THEN <<>>
    ELSE get_alerts(alerts, {"open", "acknowledged"}, api_id, environment)

ApiFilters == {<<>>} \cup Apis
EnvFilters == {"any"} \cup Environments

----------------------------------------------------------------------------
(* The alert generator (alert_generator.py) and the Alert model            *)
(* (models/api.py:214-231)                                                  *)

\* models/api.py:218-231  the fields Alert declares
AlertFields ==
    {"id", "title", "description", "severity", "created_at", "updated_at",
     "status", "anomalies", "api_id", "api_name", "environment", "assignee",
     "tags", "metadata"}

\* models/api.py:219-228  the fields declared with Field(...): required
AlertRequired ==
    {"title", "description", "severity", "created_at", "anomalies",
     "api_id", "api_name", "environment"}

\* alert_generator.py:81-93  the keywords _create_alert_from_group passes
GeneratorKeywords ==
    {"id", "title", "description", "severity", "created_at", "status",
     "anomalies", "apis", "environments", "tags", "metadata"}

\* Alert(**values): pydantic raises ValidationError when a required field is
\* not among the keywords, and drops the keywords the model does not declare
Alert(keywords, values) ==
    IF AlertRequired \subseteq keywords
    THEN [ok |-> TRUE,
          alert |-> [k \in DOMAIN values \cap AlertFields |-> values[k]]]
    ELSE [ok |-> FALSE, error |-> "ValidationError"]

\* AlertGenerator._get_alert_severity
_get_alert_severity(max_anomaly_severity) ==
    IF max_anomaly_severity >= ThresholdCritical THEN "critical"
    ELSE IF max_anomaly_severity >= ThresholdHigh THEN "high"
    ELSE IF max_anomaly_severity >= ThresholdMedium THEN "medium"
    ELSE "low"

\* "api:type".split(":", 1): the text before the first ":" and the text
\* after it
RECURSIVE FirstColon(_, _)
FirstColon(key, i) ==
    IF i > Len(key) THEN 0
    ELSE IF key[i] = ":" THEN i ELSE FirstColon(key, i + 1)

SplitKey(key) ==
    LET c == FirstColon(key, 1)
    IN [api_id |-> SubSeq(key, 1, c - 1),
        anomaly_type |-> SubSeq(key, c + 1, Len(key))]

\* AlertGenerator._generate_metadata (the count; the other entries are
\* statistics of the same list)
_generate_metadata(group) ==
    [anomaly_count |-> Len(group),
     severities |-> [i \in 1..Len(group) |-> group[i].severity]]

\* AlertGenerator._create_alert_from_group.  `uuid` stands for uuid.uuid4().
_create_alert_from_group(group_key, group, uuid) ==
    LET max_severity == SeqMax([i \in 1..Len(group) |-> group[i].severity])
        parts == SplitKey(group_key)
    IN Alert(GeneratorKeywords,
             [id        |-> uuid,
              severity  |-> _get_alert_severity(max_severity),
              status    |-> "open",
              anomalies |-> [i \in 1..Len(group) |-> group[i].id],
              apis      |-> <<parts.api_id>>,
              metadata  |-> _generate_metadata(group)])

\* AlertGenerator.generate_alerts: one alert per group, in the order of the
\* groups; an exception of _create_alert_from_group ends the call.
\* `first` is the id the first alert gets.
RECURSIVE generate_alerts(_, _)
generate_alerts(grouped_anomalies, first) ==
    IF grouped_anomalies = <<>> THEN [ok |-> TRUE, alerts |-> <<>>]
    ELSE LET g == grouped_anomalies[1]
             a == _create_alert_from_group(g.key, g.anomalies, first)
         IN IF ~a.ok THEN [ok |-> FALSE, error |-> a.error]
            ELSE LET rest == generate_alerts(Tail(grouped_anomalies), first + 1)
                 IN IF ~rest.ok THEN rest
                    ELSE [ok |-> TRUE, alerts |-> <<a.alert>> \o rest.alerts]

\* AlertManager._group_anomalies: the dict, as the sequence of its items in
\* insertion order
GroupKey(anomaly) == anomaly.api_id \o <<":">> \o anomaly.type

RECURSIVE AddToGroups(_, _)
AddToGroups(grouped, anomaly) ==
    IF grouped = <<>>
    THEN <<[key |-> GroupKey(anomaly), anomalies |-> <<anomaly>>]>>
    ELSE IF grouped[1].key = GroupKey(anomaly)
    THEN <<[grouped[1] EXCEPT !.anomalies = Append(@, anomaly)]>> \o Tail(grouped)
    ELSE <<grouped[1]>> \o AddToGroups(Tail(grouped), anomaly)

RECURSIVE _group_anomalies(_)
_group_anomalies(batch) ==
    IF batch = <<>> THEN <<>>
    ELSE AddToGroups(_group_anomalies(SubSeq(batch, 1, Len(batch) - 1)),
                     batch[Len(batch)])

----------------------------------------------------------------------------
(* The anomalies collection (database.py, "Anomaly methods") *)

\* Database.store_anomalies: InsertOne with processed = False
store_anomalies(coll, id, anomaly) ==
    [a \in DOMAIN coll \cup {id} |->
        IF a = id
        THEN [api_id |-> anomaly.api_id, type |-> anomaly.type,
              severity |-> anomaly.severity, processed |-> FALSE]
        ELSE coll[a]]

\* Database.get_unprocessed_anomalies: find({"processed": False}), newest
\* first (ids grow with the timestamp); the processed flag is dropped
get_unprocessed_anomalies(coll) ==
    LET ids == Descending({a \in DOMAIN coll : coll[a].processed = FALSE})
    IN [i \in 1..Len(ids) |->
          [id |-> ids[i], api_id |-> coll[ids[i]].api_id,
           type |-> coll[ids[i]].type, severity |-> coll[ids[i]].severity]]

\* Database.mark_anomalies_processed: update_many({"id": {"$in": ids}}, ...)
mark_anomalies_processed(coll, anomaly_ids) ==
    [a \in DOMAIN coll |->
        IF a \in anomaly_ids THEN [coll[a] EXCEPT !.processed = TRUE]
        ELSE coll[a]]

----------------------------------------------------------------------------
(* AlertManager._send_notifications (alert_manager.py:163-196).  The call   *)
(* runs up to its next await, the send_alert of a channel; `notif` holds    *)
(* the batch, the alert and the channel it is waiting on.                   *)

Idle == [active |-> FALSE, batch |-> <<>>, i |-> 0, ch |-> 0, mark |-> {}]

\* str.lower() on the severities that occur
Lower(sev) ==
    CASE sev = "HIGH" -> "high"
      [] sev = "CRITICAL" -> "critical"
      [] OTHER -> sev

\* a scan of the batch that does not consult the cache
RECURSIVE NextToSend_uncached(_, _, _)
NextToSend_uncached(cache, batch, i) ==
    IF i > Len(batch) THEN i
    ELSE IF Lower(batch[i].severity) \notin {"high", "critical"}
    THEN NextToSend_uncached(cache, batch, i + 1)
    ELSE i

\* the scan if alerts of every severity were notified
RECURSIVE NextToSend_any_severity(_, _, _)
NextToSend_any_severity(cache, batch, i) ==
    IF i > Len(batch) THEN i
    ELSE IF batch[i].id \in cache
    THEN NextToSend_any_severity(cache, batch, i + 1)
    ELSE i

\* alert_manager.py:170-177  the next alert of the batch, from position i,
\* that is neither in the cache nor below high severity
RECURSIVE NextToSend(_, _, _)
NextToSend(cache, batch, i) ==
    IF i > Len(batch) THEN i
    ELSE IF batch[i].id \in cache THEN NextToSend(cache, batch, i + 1)
    ELSE IF Lower(batch[i].severity) \notin {"high", "critical"}
    THEN NextToSend(cache, batch, i + 1)
    ELSE i

\* alert_manager.py:193  list(self.alert_cache) lists a set of str ids in the
\* order of their slots in the hash table, which follows the hashes of the
\* ids and the interpreter's hash seed, not the order of insertion.  The
\* model takes three multiplicative hashes; under the first the ids are
\* listed in the order they were created.
HashModulus == 4099
HashSeeds == {1, 7, 1103}
Hash(seed, id) == (id * seed) % HashModulus

\* set(list(cache)[-500:]): the ids in the last CacheKeep places of the list
Kept(cache, seed) ==
    {x \in cache :
        Cardinality({y \in cache : Hash(seed, y) > Hash(seed, x)}) < CacheKeep}

\* alert_manager.py:191-193  the cache after the add: trimmed if it grew
\* beyond the limit
TrimOutcomes(cache) ==
    IF Cardinality(cache) > CacheLimit
    THEN {Kept(cache, seed) : seed \in HashSeeds}
    ELSE {cache}

\* send_alert calls channel ch received for alert id, in the record s
Count(s, ch, id) == IF <<ch, id>> \in DOMAIN s THEN s[<<ch, id>>] ELSE 0

\* `sent` if the sends of one alert were started on every channel at once
Called_on_every_channel(c, id) ==
    [k \in DOMAIN sent \cup {<<Notifiers[n], id>> : n \in 1..Len(Notifiers)} |->
        IF k[2] = id THEN Count(sent, k[1], k[2]) + 1 ELSE sent[k]]

\* `sent` after one more send_alert call on channel number c for alert id
Called(c, id) ==
    [k \in DOMAIN sent \cup {<<Notifiers[c], id>>} |->
        IF k = <<Notifiers[c], id>> THEN Count(sent, k[1], k[2]) + 1 ELSE sent[k]]

\* the alert objects a batch can hold
AlertObject(a) == [id |-> a, severity |-> SeverityOf(a)]

RECURSIVE SeqsUpTo(_, _)
SeqsUpTo(S, n) ==
    IF n = 0 THEN {<<>>}
    ELSE LET shorter == SeqsUpTo(S, n - 1)
         IN shorter \cup {Append(q, x) : q \in {r \in shorter : Len(r) = n - 1}, x \in S}

Batches == SeqsUpTo({AlertObject(a) : a \in AlertIds}, MaxBatch) \ {<<>>}

\* _send_notifications(batch) from its first line to its first await; `mark`
\* is the list of anomaly ids the loop marks processed once the call is over
BeginNotifications(cache, batch, mark) ==
    LET j == NextToSend(cache, batch, 1)
    IN IF j > Len(batch)
       THEN [notif |-> Idle, sent |-> sent]
       ELSE [notif |-> [active |-> TRUE, batch |-> batch, i |-> j, ch |-> 1,
                        mark |-> mark],
             sent  |-> Called(1, batch[j].id)]

----------------------------------------------------------------------------
(* AlertManager._alerting_loop (alert_manager.py:91-139): one iteration,   *)
(* from the loop test to the next await that is a sleep or a send.  The    *)
(* except AttributeError arm of line 106 needs a database object without  *)
(* the method, which the Database class does not produce.                   *)

\* uuid.uuid4() of the first alert an iteration creates
NextAlertId ==
    1 + (IF DOMAIN alerts = {} THEN 0
         ELSE CHOOSE x \in DOMAIN alerts : \A y \in DOMAIN alerts : y <= x)

Ids(batch) == {batch[i].id : i \in 1..Len(batch)}

Skipped(pc, outcome, fetched) ==
    [alerts |-> alerts, anomalies |-> anomalies, notif |-> notif, sent |-> sent,
     loop_pc |-> pc, outcome |-> outcome, fetched |-> fetched, generated |-> <<>>]

\* one iteration if the loop had no except arm: a failure ends the task
_alerting_loop_uncaught(fault) ==
    IF ~mongo_available THEN Skipped("sleep", "unavailable", {})
    ELSE IF fault THEN Skipped("stopped", "fetch_error", {})
    ELSE LET batch == get_unprocessed_anomalies(anomalies) IN
    IF batch = <<>> THEN Skipped("sleep", "empty", {})
    ELSE Skipped("stopped", "error", Ids(batch))

_alerting_loop(fault) ==
    IF ~mongo_available THEN Skipped("sleep", "unavailable", {})
    ELSE IF fault THEN Skipped("backoff", "fetch_error", {})
    ELSE LET batch == get_unprocessed_anomalies(anomalies) IN
    IF batch = <<>> THEN Skipped("sleep", "empty", {})
    ELSE LET grouped == _group_anomalies(batch)
             made == generate_alerts(grouped, NextAlertId) IN
    IF ~made.ok THEN Skipped("backoff", "error", Ids(batch))
    ELSE IF made.alerts = <<>> THEN Skipped("sleep", "empty", Ids(batch))
    ELSE LET begun == BeginNotifications(alert_cache["main"], made.alerts, Ids(batch)) IN
         [alerts    |-> store_alerts(alerts, made.alerts),
          anomalies |-> IF begun.notif.active THEN anomalies
                        ELSE mark_anomalies_processed(anomalies, Ids(batch)),
          notif     |-> begun.notif,
          sent      |-> begun.sent,
          loop_pc   |-> IF begun.notif.active THEN "notify" ELSE "sleep",
          outcome   |-> "stored",
          fetched   |-> Ids(batch),
          generated |-> made.alerts]

----------------------------------------------------------------------------
(* The alert routes of the HTTP API (routes.py:310-365).  They look the     *)
(* alert up themselves and then call the manager routes.py:19 created.      *)
(* `lookup_fault` and `fault` say that the route's and the manager's        *)
(* database call raised; with MongoDB unavailable the lookup always raises  *)
(* (no mongo_db attribute).                                                 *)

Response(code) == [alerts |-> alerts, alert_cache |-> alert_cache, out |-> code]

\* POST /alerts/{alert_id}/acknowledge
route_acknowledge_alert(alert_id, user, lookup_fault, fault) ==
    IF ~mongo_available \/ lookup_fault THEN Response("500")
    ELSE IF ~get_alert(alerts, alert_id).found THEN Response("404")
    ELSE LET r == acknowledge_alert("routes", alert_id, user, fault)
         IN [alerts |-> r.alerts, alert_cache |-> r.alert_cache, out |-> "200"]

\* POST /alerts/{alert_id}/resolve
route_resolve_alert(alert_id, user, lookup_fault, fault) ==
    IF ~mongo_available \/ lookup_fault THEN Response("500")
    ELSE IF ~get_alert(alerts, alert_id).found THEN Response("404")
    ELSE LET r == resolve_alert("routes", alert_id, user, fault)
         IN [alerts |-> r.alerts, alert_cache |-> r.alert_cache, out |-> "200"]

\* a snooze route that validates the duration before it looks the alert up
route_snooze_alert_duration_first(alert_id, duration_minutes, user, lookup_fault, fault) ==
    IF duration_minutes <= 0 THEN Response("400")
    ELSE IF ~mongo_available \/ lookup_fault THEN Response("500")
    ELSE IF ~get_alert(alerts, alert_id).found THEN Response("404")
    ELSE LET r == snooze_alert("routes", alert_id, duration_minutes, user, fault)
         IN [alerts |-> r.alerts, alert_cache |-> r.alert_cache, out |-> "200"]

\* POST /alerts/{alert_id}/snooze
route_snooze_alert(alert_id, duration_minutes, user, lookup_fault, fault) ==
    IF ~mongo_available \/ lookup_fault THEN Response("500")
    ELSE IF ~get_alert(alerts, alert_id).found THEN Response("404")
    ELSE IF duration_minutes <= 0 THEN Response("400")
    ELSE LET r == snooze_alert("routes", alert_id, duration_minutes, user, fault)
         IN [alerts |-> r.alerts, alert_cache |-> r.alert_cache, out |-> "200"]

----------------------------------------------------------------------------
(* Analyzers *)

\* ids of the API sources and the endpoints they serve
ApiIds == {"a1", "a2"}
Endpoints == {"/a", "/b"}

\* the analyzers _create_analyzers builds for one API, in list order
ApiAnalyzers == <<"response_time", "error_rate", "pattern">>

\* the analyzer _init_global_analyzers builds
GlobalAnalyzers == <<"cross_environment">>

\* the analyzer objects: <<api id, kind>>, "*" for the global one
AnalyzerObjects ==
    (ApiIds \X Range(ApiAnalyzers)) \cup ({"*"} \X Range(GlobalAnalyzers))

ResponseTimeMinDataPoints == 30
ErrorRateMinDataPoints == 20
CrossEnvMinDataPoints == 20

\* self.min_data_points of an analyzer; PatternAnalyzer sets none
min_data_points(kind) ==
    CASE kind = "response_time" -> ResponseTimeMinDataPoints
      [] kind = "error_rate" -> ErrorRateMinDataPoints
      [] kind = "cross_environment" -> CrossEnvMinDataPoints

\* max_history of _update_history
MaxHistory == 1000

Max(a, b) == IF a >= b THEN a ELSE b

\* an ApiMetric: the fields the analyzers read.  timestamp counts minutes,
\* response_time milliseconds.
ApiMetric(api_id, endpoint, environment, response_time, error) ==
    [api_id |-> api_id, method |-> "GET", endpoint |-> endpoint,
     environment |-> environment, response_time |-> response_time,
     error |-> error, timestamp |-> 0]

\* n metrics equal to m
Repeat(m, n) == [i \in 1..n |-> m]

\* the hits of get_metrics: sorted by timestamp, newest first, one a minute
Stamp(s) == [i \in 1..Len(s) |-> [s[i] EXCEPT !.timestamp = Len(s) - i]]

\* list.sort(key=lambda x: x.timestamp): a stable sort.  A list that is
\* strictly newest first, as the search hits are, comes out reversed.
SortByTimestamp(s) ==
    LET rank == [i \in 1..Len(s) |->
                    Cardinality({j \in 1..Len(s) :
                        \/ s[j].timestamp < s[i].timestamp
                        \/ s[j].timestamp = s[i].timestamp /\ j < i}) + 1]
    IN IF \A i \in 1..(Len(s) - 1) : s[i].timestamp > s[i + 1].timestamp
       THEN [p \in 1..Len(s) |-> s[Len(s) + 1 - p]]
       ELSE [p \in 1..Len(s) |-> s[CHOOSE i \in 1..Len(s) : rank[i] = p]]

\* the keys of a dict filled in one pass over ks, in insertion order
Distinct(ks) ==
    LET first == SelectSeq([i \in 1..Len(ks) |-> i],
                     LAMBDA i : \A j \in 1..(i - 1) : ks[j] # ks[i])
    IN [k \in 1..Len(first) |-> ks[first[k]]]

\* the elements of a list at the given places
At(s, places) == [j \in 1..Len(places) |-> s[places[j]]]

\* the items of the dict a grouping pass builds, in insertion order; ks[i]
\* is the key of metrics[i]
Groups(metrics, ks) ==
    LET keys == Distinct(ks)
        places == [i \in 1..Len(metrics) |-> i]
    IN [g \in 1..Len(keys) |->
            [key |-> keys[g],
             metrics |-> At(metrics,
                            SelectSeq(places, LAMBDA i : ks[i] = keys[g]))]]

\* endpoint_key = f"{metric.method}:{metric.endpoint}"
EndpointKey(m) == <<m.method, ":", m.endpoint>>

\* the keys of a list of metrics under an attribute of the metric
EndpointKeysOf(metrics) == [i \in 1..Len(metrics) |-> EndpointKey(metrics[i])]
ApiKeysOf(metrics) == [i \in 1..Len(metrics) |-> metrics[i].api_id]
EnvironmentKeysOf(metrics) == [i \in 1..Len(metrics) |-> metrics[i].environment]

\* ErrorRateAnalyzer._group_by_endpoint: no sort
_group_by_endpoint_unsorted(metrics) == Groups(metrics, EndpointKeysOf(metrics))

\* _group_by_endpoint of the response-time and cross-environment analyzers
_group_by_endpoint(metrics) ==
    LET groups == Groups(metrics, EndpointKeysOf(metrics))
    IN [g \in 1..Len(groups) |->
            [groups[g] EXCEPT !.metrics = SortByTimestamp(@)]]

\* sum of the integers of a sequence
RECURSIVE Total(_)
Total(s) ==
    IF Len(s) = 0 THEN 0
    ELSE IF Len(s) = 1 THEN s[1]
    ELSE LET half == Len(s) \div 2
         IN Total(SubSeq(s, 1, half)) + Total(SubSeq(s, half + 1, Len(s)))

ResponseTimes(metrics) == [i \in 1..Len(metrics) |-> metrics[i].response_time]

\* number of metrics with error set
ErrorCount(metrics) == Cardinality({i \in 1..Len(metrics) : metrics[i].error})

\* BaseAnalyzer.create_anomaly.  Severities and rates are kept in
\* hundredths, rounded down; latencies in milliseconds, rounded down.
create_anomaly(api_id, type, severity, metric_value, expected_value, threshold, environment, endpoint) ==
    [api_id |-> api_id, type |-> type, severity |-> severity,
     metric_value |-> metric_value, expected_value |-> expected_value,
     threshold |-> threshold, environment |-> environment,
     endpoint |-> endpoint]

\* _update_history: extend the list of the key, keep the last MaxHistory
_update_history(hist, key, metrics) ==
    LET old == IF key \in DOMAIN hist THEN hist[key] ELSE <<>>
        all == old \o metrics
        kept == IF Len(all) > MaxHistory
                THEN SubSeq(all, Len(all) - MaxHistory + 1, Len(all))
                ELSE all
    IN [k \in DOMAIN hist \cup {key} |-> IF k = key THEN kept ELSE hist[k]]

\* the history after the groups of `done` were recorded one after the other
RECURSIVE UpdateAll(_, _)
UpdateAll(hist, done) ==
    IF done = <<>> THEN hist
    ELSE UpdateAll(_update_history(hist, done[1].key, done[1].metrics),
                   SubSeq(done, 2, Len(done)))

\* the concatenation of a sequence of sequences
RECURSIVE Flatten(_)
Flatten(ss) == IF ss = <<>> THEN <<>> ELSE ss[1] \o Flatten(SubSeq(ss, 2, Len(ss)))

\* what a detect_anomalies or predict_issues call comes to
Outcome(result, hist, raised, logged) ==
    [result |-> result, history |-> hist, raised |-> raised, logged |-> logged]

\* the analysed groups of a call: those with enough metrics, up to the
\* one at which an exception is raised (fault = 0: none is raised)
Eligible(groups, min) == SelectSeq(groups, LAMBDA g : Len(g.metrics) >= min)

\* the analysed groups if the results of a call were dropped on an exception
Analysed_discarding(eligible, fault) ==
    IF fault \in 1..Len(eligible) THEN <<>> ELSE eligible

Analysed(eligible, fault) ==
    IF fault \in 1..Len(eligible) THEN SubSeq(eligible, 1, fault - 1)
    ELSE eligible

\* the positions pyod's KNN(contamination=0.05) labels 1 with a score above
\* anomaly_threshold.  The score of a point is its scaled distance to its
\* fifth nearest neighbour (n_neighbors=5): zero, and never above the
\* threshold, when five other points share its response time.
KnnOutliers(rts) ==
    {i \in DOMAIN rts : Cardinality({j \in DOMAIN rts : rts[j] = rts[i]}) <= 5}

\* ResponseTimeAnalyzer._detect_spikes
_detect_spikes(api_id, endpoint, metrics) ==
    LET rts == ResponseTimes(metrics)
        flagged == KnnOutliers(rts)
        spike(i) ==
            LET window_size == Min(10, Len(metrics))
                start_idx == Max(0, (i - 1) - window_size)
                end_idx == Min(Len(metrics), (i - 1) + window_size)
                around == SelectSeq(SubSeq(metrics, start_idx + 1, end_idx),
                                    LAMBDA m : m # metrics[i])
                sum == Total(ResponseTimes(around))
                count == Len(around)
            IN create_anomaly(api_id, "response_time_spike",
                    Min(100, ((rts[i] * count - sum) * 100) \div sum),
                    rts[i], sum \div count, (3 * sum) \div (2 * count),
                    metrics[i].environment, endpoint)
        at == SelectSeq([i \in 1..Len(metrics) |-> i], LAMBDA i : i \in flagged)
    IN [k \in 1..Len(at) |-> spike(at[k])]

\* what the isolation forest can report on a group: no run of three
\* anomalies, or one ending at the third metric with a score in hundredths
IForestVerdicts ==
    {<<>>} \cup {<<[index |-> 3, score |-> s]>> : s \in {25, 60}}

\* ResponseTimeAnalyzer._detect_pattern_changes
_detect_pattern_changes(api_id, endpoint, metrics, hist, iforest) ==
    IF endpoint \notin DOMAIN hist THEN <<>>
    ELSE IF Len(hist[endpoint]) < ResponseTimeMinDataPoints THEN <<>>
    ELSE LET sum == Total(ResponseTimes(hist[endpoint]))
             count == Len(hist[endpoint])
         IN [k \in 1..Len(iforest) |->
                create_anomaly(api_id, "response_time_pattern_change",
                    Min(100, (iforest[k].score * 100) \div 50),
                    metrics[iforest[k].index].response_time,
                    sum \div count, (13 * sum) \div (10 * count),
                    metrics[iforest[k].index].environment, endpoint)]

\* ResponseTimeAnalyzer.detect_anomalies
response_time_detect_anomalies(api_id, hist, metrics, fault, iforest) ==
    IF metrics = <<>> \/ Len(metrics) < ResponseTimeMinDataPoints
    THEN Outcome(<<>>, hist, "none", FALSE)
    ELSE LET eligible == Eligible(_group_by_endpoint(metrics),
                                  ResponseTimeMinDataPoints)
             analysed == Analysed(eligible, fault)
             found == [g \in 1..Len(analysed) |->
                 _detect_spikes(api_id, analysed[g].key, analysed[g].metrics)
                 \o _detect_pattern_changes(api_id, analysed[g].key,
                        analysed[g].metrics, hist, iforest)]
         IN Outcome(Flatten(found), UpdateAll(hist, analysed), "none",
                    fault \in 1..Len(eligible))

\* the body of the loop of ErrorRateAnalyzer.detect_anomalies, with >= for >
high_error_rate_inclusive(api_id, group) ==
    LET errors == ErrorCount(group.metrics)
        total == Len(group.metrics)
    IN IF 100 * errors >= 5 * total
       THEN <<create_anomaly(api_id, "high_error_rate",
                  Min(100, (500 * errors) \div total),
                  (100 * errors) \div total, 1, 5,
                  group.metrics[1].environment, group.key)>>
       ELSE <<>>

\* the body of the loop of ErrorRateAnalyzer.detect_anomalies: the anomaly
\* of one group (error_rate > 0.05, severity min(1.0, error_rate * 5))
high_error_rate(api_id, group) ==
    LET errors == ErrorCount(group.metrics)
        total == Len(group.metrics)
    IN IF 100 * errors > 5 * total
       THEN <<create_anomaly(api_id, "high_error_rate",
                  Min(100, (500 * errors) \div total),
                  (100 * errors) \div total, 1, 5,
                  group.metrics[1].environment, group.key)>>
       ELSE <<>>

\* ErrorRateAnalyzer.detect_anomalies
error_rate_detect_anomalies(api_id, hist, metrics, fault) ==
    IF metrics = <<>> \/ Len(metrics) < ErrorRateMinDataPoints
    THEN Outcome(<<>>, hist, "none", FALSE)
    ELSE LET eligible == Eligible(_group_by_endpoint_unsorted(metrics),
                                  ErrorRateMinDataPoints)
             analysed == Analysed(eligible, fault)
             found == [g \in 1..Len(analysed) |->
                          high_error_rate(api_id, analysed[g])]
         IN Outcome(Flatten(found), hist, "none", fault \in 1..Len(eligible))

\* CrossEnvironmentAnalyzer._group_by_api
_group_by_api(metrics) == Groups(metrics, ApiKeysOf(metrics))

\* CrossEnvironmentAnalyzer._group_by_environment
_group_by_environment(metrics) ==
    LET groups == Groups(metrics, EnvironmentKeysOf(metrics))
    IN [g \in 1..Len(groups) |->
            [groups[g] EXCEPT !.metrics = SortByTimestamp(@)]]

\* CrossEnvironmentAnalyzer._get_environments
_get_environments(metrics) == {metrics[i].environment : i \in DOMAIN metrics}

\* env_stats of one environment: sums and counts stand for the means
EnvStats(group) ==
    [sum |-> Total(ResponseTimes(group.metrics)),
     errors |-> ErrorCount(group.metrics),
     count |-> Len(group.metrics)]

\* _check_response_time_discrepancy if it fired when the slower mean is
\* above the threshold it reports, 1.3 times the faster mean
_check_response_time_discrepancy_of_faster(api_id, endpoint, s1, s2, env1, env2) ==
    LET a == s1.sum * s2.count
        b == s2.sum * s1.count
        diff == IF a >= b THEN a - b ELSE b - a
        slower == IF a > b THEN s1 ELSE s2
        faster == IF a > b THEN s2 ELSE s1
    IN IF 10 * Max(a, b) > 13 * Min(a, b)
       THEN <<create_anomaly(api_id, "cross_environment_response_time",
                  Min(100, (200 * diff) \div (a + b)),
                  slower.sum \div slower.count, faster.sum \div faster.count,
                  (13 * faster.sum) \div (10 * faster.count),
                  IF a > b THEN env1 ELSE env2, endpoint)>>
       ELSE <<>>

\* CrossEnvironmentAnalyzer._check_response_time_discrepancy: with
\* rt = sum / count, relative_diff = abs(rt1 - rt2) / ((rt1 + rt2) / 2) is
\* diff / ((a + b) / 2) for a = sum1 * count2 and b = sum2 * count1
_check_response_time_discrepancy(api_id, endpoint, s1, s2, env1, env2) ==
    LET a == s1.sum * s2.count
        b == s2.sum * s1.count
        diff == IF a >= b THEN a - b ELSE b - a
        slower == IF a > b THEN s1 ELSE s2
        faster == IF a > b THEN s2 ELSE s1
    IN IF 20 * diff > 3 * (a + b)
       THEN <<create_anomaly(api_id, "cross_environment_response_time",
                  Min(100, (200 * diff) \div (a + b)),
                  slower.sum \div slower.count, faster.sum \div faster.count,
                  (13 * faster.sum) \div (10 * faster.count),
                  IF a > b THEN env1 ELSE env2, endpoint)>>
       ELSE <<>>

\* CrossEnvironmentAnalyzer._check_error_rate_discrepancy
_check_error_rate_discrepancy(api_id, endpoint, s1, s2, env1, env2) ==
    LET higher(x, y, env) ==
            <<create_anomaly(api_id, "cross_environment_error_rate",
                  Min(100, (100 * x.errors) \div x.count),
                  (100 * x.errors) \div x.count,
                  (100 * y.errors) \div y.count,
                  Max(5, (200 * y.errors) \div y.count), env, endpoint)>>
        above(x, y) == /\ 100 * x.errors > 5 * x.count
                       /\ x.errors * y.count > 2 * y.errors * x.count
    IN IF above(s1, s2) THEN higher(s1, s2, env1)
       ELSE IF above(s2, s1) THEN higher(s2, s1, env2)
       ELSE <<>>

\* all pairs <<i, j>> with i < j <= n, in the order of the nested loops
Pairs(n) ==
    LET all == [k \in 1..(n * n) |-> <<((k - 1) \div n) + 1, ((k - 1) % n) + 1>>]
    IN SelectSeq(all, LAMBDA p : p[1] < p[2])

\* CrossEnvironmentAnalyzer._detect_environment_discrepancies
_detect_environment_discrepancies(api_id, endpoint, metrics) ==
    LET viable == Eligible(_group_by_environment(metrics), CrossEnvMinDataPoints)
        pairs == Pairs(Len(viable))
        check(p) ==
            LET g1 == viable[p[1]]
                g2 == viable[p[2]]
            IN _check_response_time_discrepancy(api_id, endpoint,
                    EnvStats(g1), EnvStats(g2), g1.key, g2.key)
               \o _check_error_rate_discrepancy(api_id, endpoint,
                    EnvStats(g1), EnvStats(g2), g1.key, g2.key)
    IN IF Len(viable) < 2 THEN <<>>
       ELSE Flatten([k \in 1..Len(pairs) |-> check(pairs[k])])

\* history_key = f"{api_id}:{endpoint}"
HistoryKey(api_id, endpoint) == <<api_id, ":">> \o endpoint

\* CrossEnvironmentAnalyzer._detect_propagation_patterns: without history of
\* the key nothing; else `propagation` says whether the change tests found
\* a common change in two environments within thirty minutes: <<>>, or the
\* pair <<source environment, target environment>>
_detect_propagation_patterns(api_id, endpoint, metrics, hist, propagation) ==
    IF HistoryKey(api_id, endpoint) \notin DOMAIN hist THEN <<>>
    ELSE IF propagation = <<>> THEN <<>>
    ELSE IF ~(Range(propagation) \subseteq _get_environments(metrics)) THEN <<>>
    ELSE LET target == SelectSeq(metrics,
                           LAMBDA m : m.environment = propagation[2])
         IN <<create_anomaly(api_id, "cross_environment_propagation", 80,
                  Total(ResponseTimes(target)) \div Len(target), 0, 0,
                  propagation[2], endpoint)>>

\* the groups of the nested loops of CrossEnvironmentAnalyzer's
\* detect_anomalies: per API, per endpoint, in dict order
ApiEndpointGroups(metrics) ==
    LET apis == _group_by_api(metrics)
    IN Flatten([a \in 1..Len(apis) |->
           LET endpoints == _group_by_endpoint(apis[a].metrics)
           IN [e \in 1..Len(endpoints) |->
                  [api_id |-> apis[a].key, key |-> endpoints[e].key,
                   metrics |-> endpoints[e].metrics]]])

\* CrossEnvironmentAnalyzer.detect_anomalies
cross_environment_detect_anomalies(hist, metrics, fault, propagation) ==
    IF metrics = <<>> \/ Len(metrics) < CrossEnvMinDataPoints
    THEN Outcome(<<>>, hist, "none", FALSE)
    ELSE LET eligible == SelectSeq(ApiEndpointGroups(metrics),
                 LAMBDA g : Cardinality(_get_environments(g.metrics)) > 1)
             analysed == Analysed(eligible, fault)
             found == [g \in 1..Len(analysed) |->
                 _detect_environment_discrepancies(analysed[g].api_id,
                     analysed[g].key, analysed[g].metrics)
                 \o _detect_propagation_patterns(analysed[g].api_id,
                        analysed[g].key, analysed[g].metrics, hist,
                        propagation)]
             recorded == [g \in 1..Len(analysed) |->
                 [key |-> HistoryKey(analysed[g].api_id, analysed[g].key),
                  metrics |-> analysed[g].metrics]]
         IN Outcome(Flatten(found), UpdateAll(hist, recorded), "none",
                    fault \in 1..Len(eligible))

\* analyzer.detect_anomalies(metrics) as _analyze_and_store and
\* _run_global_analyzer call it.  PatternAnalyzer defines no such method:
\* the attribute lookup raises.
detect_anomalies(object, hist, metrics, fault, iforest, propagation) ==
    CASE object[2] = "response_time" ->
            response_time_detect_anomalies(object[1], hist, metrics, fault, iforest)
      [] object[2] = "error_rate" ->
            error_rate_detect_anomalies(object[1], hist, metrics, fault)
      [] object[2] = "cross_environment" ->
            cross_environment_detect_anomalies(hist, metrics, fault, propagation)
      [] object[2] = "pattern" ->
            Outcome(<<>>, hist, "AttributeError", FALSE)

\* a prediction: the fields the scheduler reads
create_prediction(api_id, type, endpoint) ==
    [api_id |-> api_id, type |-> type, endpoint |-> endpoint]

\* the groups the loop of predict_issues works on
PredictionGroups(kind, metrics) ==
    CASE kind = "response_time" ->
            Eligible(_group_by_endpoint(metrics), ResponseTimeMinDataPoints)
      [] kind = "error_rate" ->
            Eligible(_group_by_endpoint_unsorted(metrics), ErrorRateMinDataPoints)
      [] kind = "cross_environment" ->
            SelectSeq(ApiEndpointGroups(metrics),
                LAMBDA g : Cardinality(_get_environments(g.metrics)) > 1)

\* analyzer.predict_issues(metrics).  forecast says whether the forecast or
\* trend test of a group yields a prediction.  No predict_issues touches
\* self.history; PatternAnalyzer defines no such method.
predict_issues(object, hist, metrics, fault, forecast) ==
    IF object[2] = "pattern" THEN Outcome(<<>>, hist, "AttributeError", FALSE)
    ELSE IF metrics = <<>> \/ Len(metrics) < min_data_points(object[2])
    THEN Outcome(<<>>, hist, "none", FALSE)
    ELSE LET eligible == PredictionGroups(object[2], metrics)
             analysed == Analysed(eligible, fault)
         IN Outcome(IF forecast
                    THEN [g \in 1..Len(analysed) |->
                             create_prediction(object[1], object[2], analysed[g].key)]
                    ELSE <<>>,
                    hist, "none", fault \in 1..Len(eligible))

\* metric windows

Quiet(api_id, endpoint, environment, n) ==
    Repeat(ApiMetric(api_id, endpoint, environment, 100, FALSE), n)

\* thirty metrics of one endpoint, one of them with response time rt
WithOutlier(api_id, endpoint, rt) ==
    Quiet(api_id, endpoint, "aws", 15)
    \o <<ApiMetric(api_id, endpoint, "aws", rt, FALSE)>>
    \o Quiet(api_id, endpoint, "aws", 14)

\* n metrics of one endpoint, f of them failed
Errors(api_id, endpoint, n, f) ==
    Repeat(ApiMetric(api_id, endpoint, "aws", 100, TRUE), f)
    \o Quiet(api_id, endpoint, "aws", n - f)

\* twenty metrics of 100 ms from aws and n of rt ms from gcp
TwoEnvs(api_id, endpoint, n, rt) ==
    Quiet(api_id, endpoint, "aws", 20)
    \o Repeat(ApiMetric(api_id, endpoint, "gcp", rt, FALSE), n)

\* the windows get_metrics returns for an API
Windows(api_id) ==
    {Stamp(w) : w \in
        {<<>>,
         Quiet(api_id, "/a", "aws", 29),
         Errors(api_id, "/a", 19, 19),
         WithOutlier(api_id, "/a", 1),
         WithOutlier(api_id, "/a", 300),
         WithOutlier(api_id, "/a", 300) \o WithOutlier(api_id, "/b", 300),
         Errors(api_id, "/a", 20, 1),
         Errors(api_id, "/a", 20, 2),
         Errors(api_id, "/a", 20, 5),
         Errors(api_id, "/a", 20, 2) \o Errors(api_id, "/b", 20, 2),
         TwoEnvs(api_id, "/a", 19, 160),
         TwoEnvs(api_id, "/a", 20, 130),
         TwoEnvs(api_id, "/a", 20, 135),
         TwoEnvs(api_id, "/a", 20, 136),
         TwoEnvs(api_id, "/a", 20, 160),
         TwoEnvs(api_id, "/a", 20, 160) \o TwoEnvs(api_id, "/b", 20, 160)}}

----------------------------------------------------------------------------
(* State machine *)

\* what the call that completed last was, its arguments, which of its
\* database calls raised, and what it returned or logged
Returned(op, m, id, dur, fault, out) ==
    [op |-> op, m |-> m, id |-> id, dur |-> dur, fault |-> fault, out |-> out]

NoCycle == [runs |-> 0, fetched |-> {}, outcome |-> "none", generated |-> <<>>]

\* no analyzer call was made yet
NoAnalysis ==
    [op |-> "none", object |-> <<"*", "none">>, metrics |-> <<>>,
     inputs |-> [fault |-> 0, iforest |-> <<>>, propagation |-> <<>>,
                 forecast |-> FALSE],
     result |-> <<>>, raised |-> "none", logged |-> FALSE]

\* no cycle was begun yet: the sub-tasks still to complete, whether one of
\* the cycle logged an error, and the cycles completed
NoTasks == [pending |-> <<>>, failed |-> FALSE, cycles |-> 0]

\* the analyzer manager as its constructor leaves it
InitAnalysis ==
    /\ api_sources = {}
    /\ analyzers = <<>>
    /\ history = [o \in AnalyzerObjects |-> <<>>]
    /\ analysis_pc = "none"
    /\ tasks = NoTasks
    /\ analysis = NoAnalysis

InitAlerting ==
    /\ alert_cache = [m \in Managers |-> {}]
    /\ running = FALSE
    /\ loop_pc = "none"
    /\ cycle = NoCycle
    /\ notif = Idle
    /\ passes = [a \in AlertIds |-> 0]
    /\ sent = <<>>
    /\ evicted = {}
    /\ last = Returned("none", "main", 0, 0, "none", "none")

InitCommon == InitAlerting /\ InitAnalysis

StoredAlerts == {[a \in S |-> StoredAlert(a)] : S \in SUBSET AlertIds}

\* the service after startup, before any request: the alerts collection
\* holds the documents of earlier runs, the anomalies collection is empty
Init ==
    /\ mongo_available \in BOOLEAN
    /\ alerts \in StoredAlerts
    /\ anomalies = <<>>
    /\ InitCommon

\* a lifecycle call made on a manager object
Apply(r, op, m, id, dur, fault) ==
    /\ alerts' = r.alerts
    /\ alert_cache' = r.alert_cache
    /\ evicted' = evicted \cup (alert_cache["main"] \ r.alert_cache["main"])
    /\ last' = Returned(op, m, id, dur, fault, r.out)
    /\ UNCHANGED <<analysisVars, mongo_available, anomalies, running, loop_pc, cycle, notif,
                   passes, sent>>

ManagerFaults == {"none", "call"}

\* the lifecycle operations called on the manager main.py created
ResolveAlert ==
    \E id \in AlertIds, by \in Actors, f \in ManagerFaults :
        Apply(resolve_alert("main", id, by, f = "call"),
              "resolve_alert", "main", id, 0, f)

AcknowledgeAlert ==
    \E id \in AlertIds, by \in Actors, f \in ManagerFaults :
        Apply(acknowledge_alert("main", id, by, f = "call"),
              "acknowledge_alert", "main", id, 0, f)

SnoozeAlert ==
    \E id \in AlertIds, d \in Durations, by \in Actors, f \in ManagerFaults :
        Apply(snooze_alert("main", id, d, by, f = "call"),
              "snooze_alert", "main", id, d, f)

\* the routes; at most one of the two database calls of a request raises
Faults == {"none", "lookup", "call"}

RouteAcknowledge ==
    \E id \in AlertIds, user \in Actors, f \in Faults :
        Apply(route_acknowledge_alert(id, user, f = "lookup", f = "call"),
              "route_acknowledge", "routes", id, 0, f)

RouteResolve ==
    \E id \in AlertIds, user \in Actors, f \in Faults :
        Apply(route_resolve_alert(id, user, f = "lookup", f = "call"),
              "route_resolve", "routes", id, 0, f)

RouteSnooze ==
    \E id \in AlertIds, d \in Durations, user \in Actors, f \in Faults :
        Apply(route_snooze_alert(id, d, user, f = "lookup", f = "call"),
              "route_snooze", "routes", id, d, f)

\* how often alert id occurs in a batch
Occurrences(batch, id) == Cardinality({i \in 1..Len(batch) : batch[i].id = id})

\* the main manager starts _send_notifications on a batch
SendNotifications ==
    \E batch \in Batches :
        /\ ~notif.active
        /\ loop_pc # "notify"
        /\ \A a \in AlertIds : passes[a] + Occurrences(batch, a) <= MaxPasses
        /\ LET begun == BeginNotifications(alert_cache["main"], batch, {}) IN
            /\ notif' = begun.notif
            /\ sent' = begun.sent
            /\ last' = Returned("_send_notifications", "main", 0, 0, "none",
                                IF begun.notif.active THEN "await" ELSE "done")
        /\ passes' = [a \in AlertIds |-> passes[a] + Occurrences(batch, a)]
        /\ UNCHANGED <<analysisVars, mongo_available, alerts, anomalies, alert_cache, running,
                       loop_pc, cycle, evicted>>

\* the channel loop if an exception of send_alert ended it
NextChannel_aborting(ch, outcome) ==
    IF outcome = "raised" \/ ch >= Len(Notifiers) THEN 0 ELSE ch + 1

\* alert_manager.py:181-186  the channel the loop goes on to after the send
\* on channel ch came to `outcome`, 0 after the last one: the inner try
\* logs an exception, and the value send_alert returns is not read
NextChannel(ch, outcome) == IF ch < Len(Notifiers) THEN ch + 1 ELSE 0

\* the send_alert the call waits on returns or raises (alert_manager.py:
\* 183-186); the call goes on to the next channel, or adds the id to the
\* cache, trims it and goes on to the next alert (188-193)
SendAlertDone ==
    \E outcome \in {"sent", "failed", "raised"} :
        /\ notif.active
        /\ LET id == notif.batch[notif.i].id IN
            /\ last' = Returned("send_alert", "main", id, 0, "none", outcome)
            /\ IF NextChannel(notif.ch, outcome) # 0
               THEN /\ notif' = [notif EXCEPT !.ch = NextChannel(@, outcome)]
                    /\ sent' = Called(NextChannel(notif.ch, outcome), id)
                    /\ UNCHANGED <<alert_cache, anomalies, loop_pc, evicted>>
               ELSE \E cache \in TrimOutcomes(alert_cache["main"] \cup {id}) :
                    LET j == NextToSend(cache, notif.batch, notif.i + 1)
                        over == j > Len(notif.batch)
                    IN /\ alert_cache' = [alert_cache EXCEPT !["main"] = cache]
                       /\ evicted' = evicted \cup (alert_cache["main"] \ cache)
                       /\ notif' = IF over THEN Idle
                                   ELSE [notif EXCEPT !.i = j, !.ch = 1]
                       /\ sent' = IF over THEN sent
                                  ELSE Called(1, notif.batch[j].id)
                       /\ anomalies' =
                            IF over /\ loop_pc = "notify"
                            THEN mark_anomalies_processed(anomalies, notif.mark)
                            ELSE anomalies
                       /\ loop_pc' = IF over /\ loop_pc = "notify" THEN "sleep"
                                     ELSE loop_pc
        /\ UNCHANGED <<analysisVars, mongo_available, alerts, running, cycle, passes>>

\* an analyzer stores an anomaly (analyzer_manager.py, Database.store_anomalies);
\* with MongoDB unavailable the call raises
StoreAnomalies ==
    \E api \in Apis, type \in Types, sev \in Severities :
        /\ Cardinality(DOMAIN anomalies) < MaxAnoms
        /\ IF mongo_available
           THEN /\ anomalies' = store_anomalies(anomalies,
                        Cardinality(DOMAIN anomalies) + 1,
                        [api_id |-> api, type |-> type, severity |-> sev])
                /\ cycle' = [cycle EXCEPT !.runs = 0]
                /\ last' = Returned("store_anomalies", "main", 0, 0, "none", "done")
           ELSE /\ UNCHANGED <<anomalies, cycle>>
                /\ last' = Returned("store_anomalies", "main", 0, 0, "call", "error")
        /\ UNCHANGED <<analysisVars, mongo_available, alerts, alert_cache, running, loop_pc,
                       notif, passes, sent, evicted>>

\* AlertManager.start_alerting, called once at startup (main.py:102)
StartAlerting ==
    /\ loop_pc = "none"
    /\ running' = TRUE
    /\ loop_pc' = "sleep"
    /\ last' = Returned("start_alerting", "main", 0, 0, "none", "done")
    /\ UNCHANGED <<analysisVars, mongo_available, alerts, anomalies, alert_cache, cycle, notif,
                   passes, sent, evicted>>

\* AlertManager.stop_alerting, called at shutdown (main.py:159): the task is
\* cancelled at the await it is at and gathered
StopAlerting ==
    /\ loop_pc \in {"sleep", "backoff", "notify"}
    /\ running' = FALSE
    /\ loop_pc' = "stopped"
    /\ notif' = IF loop_pc = "notify" THEN Idle ELSE notif
    /\ last' = Returned("stop_alerting", "main", 0, 0, "none", "done")
    /\ UNCHANGED <<analysisVars, mongo_available, alerts, anomalies, alert_cache, cycle,
                   passes, sent, evicted>>

\* one iteration of _alerting_loop.  cycle.runs counts the iterations that
\* read the unprocessed anomalies since the last anomaly arrived.
AlertingCycle ==
    \E fault \in BOOLEAN :
        /\ running
        /\ loop_pc \in {"sleep", "backoff"}
        /\ LET it == _alerting_loop(fault) IN
            /\ alerts' = it.alerts
            /\ anomalies' = it.anomalies
            /\ notif' = it.notif
            /\ sent' = it.sent
            /\ loop_pc' = it.loop_pc
            /\ cycle' = [runs      |-> IF it.outcome \in {"unavailable", "fetch_error"}
                                       THEN cycle.runs
                                       ELSE Min(cycle.runs + 1, MaxRuns),
                         fetched   |-> it.fetched,
                         outcome   |-> it.outcome,
                         generated |-> it.generated]
            /\ last' = Returned("_alerting_loop", "main", 0, 0,
                                IF fault THEN "call" ELSE "none", it.outcome)
        /\ UNCHANGED <<analysisVars, mongo_available, alert_cache, running, passes, evicted>>

LifecycleNext ==
    \/ ResolveAlert \/ AcknowledgeAlert \/ SnoozeAlert
    \/ RouteAcknowledge \/ RouteResolve \/ RouteSnooze

NotifyNext ==
    \/ SendNotifications \/ SendAlertDone
    \/ ResolveAlert \/ SnoozeAlert \/ RouteSnooze

CycleNext ==
    \/ StoreAnomalies \/ StartAlerting \/ StopAlerting \/ AlertingCycle

Next == LifecycleNext \/ SendNotifications \/ SendAlertDone \/ CycleNext

\* lifecycle operations and routes on the stored alerts
Spec == Init /\ [][LifecycleNext]_vars

\* the notification step, with the operations that touch its cache
InitNotify ==
    /\ mongo_available = TRUE
    /\ alerts = [a \in AlertIds |-> StoredAlert(a)]
    /\ anomalies = <<>>
    /\ InitCommon

SpecNotify == InitNotify /\ [][NotifyNext]_vars

\* anomalies arriving and the alerting loop processing them
InitCycle ==
    /\ mongo_available \in BOOLEAN
    /\ alerts = <<>>
    /\ anomalies = <<>>
    /\ InitCommon

SpecCycle == InitCycle /\ [][CycleNext]_vars

\* anomalies arriving and the alerting loop running for ever, with MongoDB
\* available: start_alerting is called, the event loop resumes the loop task
\* whenever its sleep is over, and the database calls of an iteration do
\* not keep raising, so that again and again the call that completed last
\* is an iteration that no database call failed
ProgressNext == StoreAnomalies \/ StartAlerting \/ AlertingCycle

InitProgress == InitCycle /\ mongo_available = TRUE

IterationRan == last.op = "_alerting_loop" /\ last.fault = "none"

SpecProgress ==
    /\ InitProgress
    /\ [][ProgressNext]_vars
    /\ WF_vars(StartAlerting)
    /\ []<>IterationRan

\* the whole service when connect() found MongoDB unavailable: the
\* collections hold what earlier runs left
StoredAnomalies ==
    {<<>>, store_anomalies(<<>>, 1, [api_id |-> <<"A">>, type |-> <<"x">>,
                                      severity |-> ThresholdCritical])}

InitDegraded ==
    /\ mongo_available = FALSE
    /\ alerts \in StoredAlerts
    /\ anomalies \in StoredAnomalies
    /\ InitCommon

SpecDegraded == InitDegraded /\ [][Next]_vars

\* the notification step when the send on the first channel may never
\* return: the event loop resumes _send_notifications whenever the send it
\* awaits on a later channel is over
SpecHang == SpecNotify /\ WF_vars(SendAlertDone /\ notif.ch > 1)

----------------------------------------------------------------------------
(* A long run of notifications *)

MaxNotified == 1003

\* the alerts of a long run, numbered in the order they are created: the
\* next one follows the one that was handed to the notification step last
NextAlert == IF last.op = "_send_notifications" THEN last.id + 1 ELSE 1

\* the alerts of the long run are critical
CriticalAlert(id) == [id |-> id, severity |-> "critical"]

\* _send_notifications on a batch of one alert, the next one created, with
\* every send_alert call completed
NotifyNextAlert ==
    LET id == NextAlert
        skipped == NextToSend(alert_cache["main"], <<CriticalAlert(id)>>, 1) > 1
    IN /\ ~notif.active
       /\ loop_pc # "notify"
       /\ id <= MaxNotified
       /\ passes' = [a \in DOMAIN passes \cup {id} |->
                        IF a = id THEN 1 ELSE passes[a]]
       /\ IF skipped
          THEN UNCHANGED <<sent, alert_cache, evicted>>
          ELSE /\ sent' = [k \in DOMAIN sent \cup
                                 {<<Notifiers[c], id>> : c \in DOMAIN Notifiers} |->
                             IF k[2] = id THEN Count(sent, k[1], k[2]) + 1
                             ELSE sent[k]]
               /\ \E cache \in TrimOutcomes(alert_cache["main"] \cup {id}) :
                    /\ alert_cache' = [alert_cache EXCEPT !["main"] = cache]
                    /\ evicted' = evicted \cup
                                    ((alert_cache["main"] \cup {id}) \ cache)
       /\ last' = Returned("_send_notifications", "main", id, 0, "none", "done")
       /\ UNCHANGED <<analysisVars, mongo_available, alerts, anomalies,
                      running, loop_pc, cycle, notif>>

SpecTrim == InitNotify /\ [][NotifyNextAlert]_vars

----------------------------------------------------------------------------
(* Analyzer calls *)

\* what the libraries and the runtime decided in a call: the group at which
\* an exception was raised (0: none), the isolation forest's verdict, the
\* propagation found, whether the forecasts yield predictions
Inputs(fault, iforest, propagation, forecast) ==
    [fault |-> fault, iforest |-> iforest, propagation |-> propagation,
     forecast |-> forecast]

\* the analyzer call that completed last: the method, the object, the
\* metrics it was given, the inputs, and what it came to
Call(op, object, metrics, inputs, outcome) ==
    [op |-> op, object |-> object, metrics |-> metrics, inputs |-> inputs,
     result |-> outcome.result, raised |-> outcome.raised,
     logged |-> outcome.logged]

\* the analyzer objects the scheduler holds
Owned == {<<analyzers[i].id, analyzers[i].list[k]>> :
            i \in DOMAIN analyzers, k \in DOMAIN ApiAnalyzers}
         \cup ({"*"} \X Range(GlobalAnalyzers))

\* the windows an object is given: the metrics of its API, or of all APIs
WindowsOf(object) == Windows(IF object[1] = "*" THEN "a1" ELSE object[1])

GroupFaults == 0..2

Propagations == {<<>>, <<"aws", "gcp">>}

NoInputs == Inputs(0, <<>>, <<>>, FALSE)

\* the scheduler fetched metrics for an analyzer and is about to call it
Fetched(object, metrics) ==
    Call("fetched", object, metrics, NoInputs, Outcome(<<>>, <<>>, "none", FALSE))

\* the detect_anomalies call on the fetched metrics
DetectAnomalies ==
    \E fault \in GroupFaults :
    \E iforest \in IF analysis.object[2] = "response_time"
                    THEN IForestVerdicts ELSE {<<>>} :
    \E propagation \in IF analysis.object[2] = "cross_environment"
                        THEN Propagations ELSE {<<>>} :
        /\ analysis.op = "fetched"
        /\ LET r == detect_anomalies(analysis.object, history[analysis.object],
                                     analysis.metrics, fault, iforest, propagation)
           IN /\ history' = [history EXCEPT ![analysis.object] = r.history]
              /\ analysis' = Call("detect_anomalies", analysis.object,
                                  analysis.metrics,
                                  Inputs(fault, iforest, propagation, FALSE), r)
        /\ UNCHANGED <<alertingVars, api_sources, analyzers, analysis_pc, tasks>>

\* the predict_issues call that follows on the same metrics
PredictIssues ==
    \E fault \in GroupFaults, forecast \in BOOLEAN :
        /\ analysis.op = "detect_anomalies"
        /\ LET r == predict_issues(analysis.object, history[analysis.object],
                                   analysis.metrics, fault, forecast)
           IN /\ history' = [history EXCEPT ![analysis.object] = r.history]
              /\ analysis' = Call("predict_issues", analysis.object,
                                  analysis.metrics,
                                  Inputs(fault, <<>>, <<>>, forecast), r)
        /\ UNCHANGED <<alertingVars, api_sources, analyzers, analysis_pc, tasks>>

DetectNext == DetectAnomalies \/ PredictIssues

NoHistory == [o \in AnalyzerObjects |-> <<>>]

\* the histories before a call: none, or what an earlier cycle left
Histories ==
    {NoHistory,
     [NoHistory EXCEPT
        ![<<"a1", "response_time">>] =
            response_time_detect_anomalies("a1", <<>>,
                Stamp(WithOutlier("a1", "/a", 300)), 0, <<>>).history,
        ![<<"*", "cross_environment">>] =
            cross_environment_detect_anomalies(<<>>,
                Stamp(TwoEnvs("a1", "/a", 20, 160)), 0, <<>>).history]}

\* the analyzers of one API and the global analyzer, each about to be
\* called with a window of metrics
InitDetect ==
    /\ mongo_available = TRUE
    /\ alerts = <<>>
    /\ anomalies = <<>>
    /\ InitAlerting
    /\ api_sources = {"a1"}
    /\ analyzers = <<[id |-> "a1", list |-> ApiAnalyzers]>>
    /\ history \in Histories
    /\ analysis_pc = "none"
    /\ tasks = NoTasks
    /\ \E object \in Owned : \E metrics \in WindowsOf(object) :
            analysis = Fetched(object, metrics)

SpecDetect == InitDetect /\ [][DetectNext]_vars

----------------------------------------------------------------------------
(* Analysis scheduler *)

MaxCycles == 2

\* the ids of the mapping's entries, in insertion order
AnalyzerIds(az) == [i \in DOMAIN az |-> az[i].id]

\* _create_analyzers: one analyzer of each kind for an API
_create_analyzers(api_id) == [id |-> api_id, list |-> ApiAnalyzers]

\* the analyzer classes that define update_config and cleanup:
\* PatternAnalyzer does not derive from BaseAnalyzer and defines neither
has_update_config == {"response_time", "error_rate", "cross_environment"}
has_cleanup == {"response_time", "error_rate", "cross_environment"}

\* the first position of a list whose analyzer lacks the method that the
\* classes of `defined` have, 0 if none
FirstWithout(list, defined) ==
    LET missing == {k \in DOMAIN list : list[k] \notin defined}
    IN IF missing = {} THEN 0
       ELSE CHOOSE k \in missing : \A j \in missing : k <= j

\* the mapping, the histories of the analyzer objects, the objects on which
\* cleanup was invoked and the exception that ended the call
Managed(az, hist, cleaned, raised) ==
    [analyzers |-> az, history |-> hist, cleaned |-> cleaned, raised |-> raised]

\* add_analyzers: an API that has analyzers gets update_config on each of
\* them, any other API gets new analyzer objects
add_analyzers(az, hist, api_id) ==
    IF api_id \in Range(AnalyzerIds(az))
    THEN Managed(az, hist, {},
                 IF FirstWithout(ApiAnalyzers, has_update_config) = 0
                 THEN "none" ELSE "AttributeError")
    ELSE Managed(Append(az, _create_analyzers(api_id)),
                 [o \in AnalyzerObjects |->
                    IF o[1] = api_id THEN <<>> ELSE hist[o]],
                 {}, "none")

\* remove_analyzers: cleanup on each analyzer of the API in turn, then the
\* entry is deleted
remove_analyzers(az, hist, api_id) ==
    LET k == FirstWithout(ApiAnalyzers, has_cleanup)
        upto == IF k = 0 THEN Len(ApiAnalyzers) ELSE k - 1
        cleaned == {<<api_id, ApiAnalyzers[j]>> : j \in 1..upto}
    IN IF api_id \notin Range(AnalyzerIds(az)) THEN Managed(az, hist, {}, "none")
       ELSE IF k = 0
            THEN Managed(SelectSeq(az, LAMBDA e : e.id # api_id), hist,
                         cleaned, "none")
            ELSE Managed(az, hist, cleaned, "AttributeError")

\* the loop of load_api_sources and the first loop of
\* _check_configuration_changes over the sources the query returned
RECURSIVE AddAll(_, _, _)
AddAll(az, hist, sources) ==
    IF sources = <<>> THEN Managed(az, hist, {}, "none")
    ELSE LET r == add_analyzers(az, hist, Head(sources))
         IN IF r.raised # "none" THEN r
            ELSE AddAll(r.analyzers, r.history, Tail(sources))

\* the second loop of _check_configuration_changes: every API of the mapping
\* that the query did not return is removed
RECURSIVE RemoveAll(_, _, _, _)
RemoveAll(az, hist, ids, current) ==
    IF ids = <<>> THEN Managed(az, hist, {}, "none")
    ELSE IF Head(ids) \in current THEN RemoveAll(az, hist, Tail(ids), current)
    ELSE LET r == remove_analyzers(az, hist, Head(ids))
         IN IF r.raised # "none" THEN r
            ELSE LET s == RemoveAll(r.analyzers, r.history, Tail(ids), current)
                 IN Managed(s.analyzers, s.history, r.cleaned \cup s.cleaned,
                            s.raised)

\* load_api_sources: an exception of the query or of add_analyzers is logged
load_api_sources(az, hist, sources, fault) ==
    IF fault THEN Managed(az, hist, {}, "get_api_sources")
    ELSE AddAll(az, hist, sources)

\* _check_configuration_changes: `sources` is what
\* get_api_sources(updated_since=utcnow()) returned, the sources written
\* at or after the instant of the call; every exception is logged
_check_configuration_changes(az, hist, sources, fault) ==
    IF fault THEN Managed(az, hist, {}, "get_api_sources")
    ELSE LET a == AddAll(az, hist, sources)
         IN IF a.raised # "none" THEN a
            ELSE RemoveAll(a.analyzers, a.history, AnalyzerIds(a.analyzers),
                           Range(sources))

\* the sub-tasks _analysis_loop creates: one per analyzer of each API in the
\* order of the mapping, then one per global analyzer
RECURSIVE CreatedTasks(_)
CreatedTasks(az) ==
    IF az = <<>> THEN [k \in DOMAIN GlobalAnalyzers |-> <<"*", GlobalAnalyzers[k]>>]
    ELSE [k \in DOMAIN az[1].list |-> <<az[1].id, az[1].list[k]>>]
         \o CreatedTasks(Tail(az))

\* the database calls of a sub-task that may raise
TaskFaults == {"none", "get_metrics", "store_anomalies", "store_predictions"}

\* what a sub-task came to: the histories, what detection and prediction
\* returned, what was written to the database, and the error it logged
Analyzed(hist, result, stored, predicted, stored_predictions, error) ==
    [history |-> hist, result |-> result, stored |-> stored,
     predicted |-> predicted, stored_predictions |-> stored_predictions,
     error |-> error]

\* the end of a sub-task: p is what analyzer.predict_issues(metrics) came
\* to after the anomalies of d were stored
StorePredictions(d, p, fault) ==
    IF p.raised # "none"
    THEN Analyzed(p.history, d.result, d.result, <<>>, <<>>, p.raised)
    ELSE IF p.result # <<>> /\ fault = "store_predictions"
    THEN Analyzed(p.history, d.result, d.result, p.result, <<>>, fault)
    ELSE Analyzed(p.history, d.result, d.result, p.result, p.result, "none")

\* _analyze_and_store: fetch, detect, store, predict, store, all of it in
\* one try block whose handler logs the exception; d is what
\* analyzer.detect_anomalies(metrics) comes to on the histories hist
_analyze_and_store(object, hist, metrics, d, fault, forecast) ==
    IF fault = "get_metrics" THEN Analyzed(hist, <<>>, <<>>, <<>>, <<>>, fault)
    ELSE IF metrics = <<>> THEN Analyzed(hist, <<>>, <<>>, <<>>, <<>>, "none")
    ELSE IF d.raised # "none"
    THEN Analyzed(d.history, <<>>, <<>>, <<>>, <<>>, d.raised)
    ELSE IF d.result # <<>> /\ fault = "store_anomalies"
    THEN Analyzed(d.history, d.result, <<>>, <<>>, <<>>, fault)
    ELSE StorePredictions(d, predict_issues(object, d.history, metrics, 0,
                                           forecast), fault)

\* _run_global_analyzer: the same steps on the metrics of all APIs
_run_global_analyzer(analyzer, hist, metrics, d, fault, forecast) ==
    _analyze_and_store(<<"*", analyzer>>, hist, metrics, d, fault, forecast)

\* the coroutine of a sub-task: of an analyzer of an API, or of a global one
SubTask(object, hist, metrics, d, fault, forecast) ==
    IF object[1] = "*"
    THEN _run_global_analyzer(object[2], hist, metrics, d, fault, forecast)
    ELSE _analyze_and_store(object, hist, metrics, d, fault, forecast)

\* the sub-tasks still to complete once one of them has completed: each
\* sub-task handles its own exceptions and gather collects the rest
Remaining_cancelling(pending, error) ==
    IF error # "none" THEN <<>> ELSE Tail(pending)

Remaining(pending, error) == Tail(pending)

\* the windows a sub-task may fetch
TaskWindows(object) ==
    IF object[1] = "*"
    THEN {<<>>, Stamp(TwoEnvs("a1", "/a", 20, 160))}
    ELSE {<<>>, Stamp(Errors(object[1], "/a", 20, 2))}

\* the lists a query for API sources may return: the ids of S, or of a part
\* of S, in any order
Orders(S) ==
    {s \in UNION {[1..n -> S] : n \in 0..Cardinality(S)} :
        \A i, j \in DOMAIN s : s[i] = s[j] => i = j}

\* what the scheduler did last
Scheduled(op, sources, r) ==
    [op |-> op, sources |-> sources, config |-> api_sources,
     cleaned |-> r.cleaned, raised |-> r.raised,
     created |-> <<>>]

\* POST /sources and PUT /sources/{id}: the source is written to the
\* database. The scheduler reads the sources when it starts and at the head
\* of a cycle only, so a write made while the sub-tasks run is taken at the
\* end of the cycle.
CreateSource(api_id) ==
    /\ analysis_pc \in {"none", "loop"}
    /\ api_sources' = api_sources \cup {api_id}
    /\ UNCHANGED <<alertingVars, mongo_available, alerts, anomalies,
                   analyzers, history, analysis_pc, tasks, analysis>>

\* DELETE /sources/{id}: the source is deleted from the database
DeleteSource(api_id) ==
    /\ analysis_pc \in {"none", "loop"}
    /\ api_id \in api_sources
    /\ api_sources' = api_sources \ {api_id}
    /\ UNCHANGED <<alertingVars, mongo_available, alerts, anomalies,
                   analyzers, history, analysis_pc, tasks, analysis>>

\* start_analysis: the sources are loaded and the loop task is created
StartAnalysis ==
    \E sources \in Orders(api_sources), fault \in BOOLEAN :
        /\ analysis_pc = "none"
        /\ Len(sources) = Cardinality(api_sources)
        /\ LET r == load_api_sources(analyzers, history, sources, fault)
           IN /\ analyzers' = r.analyzers
              /\ history' = r.history
              /\ analysis' = Scheduled("start_analysis", sources, r)
        /\ analysis_pc' = "loop"
        /\ UNCHANGED <<alertingVars, mongo_available, alerts, anomalies,
                       api_sources, tasks>>

\* the head of an iteration of _analysis_loop: the configuration is checked
\* and the sub-tasks of the cycle are created
BeginCycle ==
    \E sources \in Orders(api_sources), fault \in BOOLEAN :
        /\ analysis_pc = "loop"
        /\ tasks.cycles < MaxCycles
        /\ LET r == _check_configuration_changes(analyzers, history, sources, fault)
           IN /\ analyzers' = r.analyzers
              /\ history' = r.history
              /\ tasks' = [tasks EXCEPT !.pending = CreatedTasks(r.analyzers),
                                        !.failed = FALSE]
              /\ analysis' = [Scheduled("_check_configuration_changes", sources, r)
                                EXCEPT !.created = CreatedTasks(r.analyzers)]
        /\ analysis_pc' = "gather"
        /\ UNCHANGED <<alertingVars, mongo_available, alerts, anomalies,
                       api_sources>>

\* a sub-task has run to its end and came to r
Completed(object, metrics, fault, forecast, r) ==
    /\ fault \in {"none", r.error}
    /\ history' = [history EXCEPT ![object] = r.history]
    /\ tasks' = [tasks EXCEPT !.pending = Remaining(tasks.pending, r.error),
                              !.failed = @ \/ r.error # "none"]
    /\ analysis' = [op |-> IF object[1] = "*" THEN "_run_global_analyzer"
                           ELSE "_analyze_and_store",
                    object |-> object, metrics |-> metrics,
                    fault |-> fault, forecast |-> forecast,
                    result |-> r.result, stored |-> r.stored,
                    predicted |-> r.predicted,
                    stored_predictions |-> r.stored_predictions,
                    error |-> r.error]

\* one sub-task of the cycle runs to its end
RunTask ==
    /\ analysis_pc = "gather"
    /\ tasks.pending # <<>>
    /\ \E metrics \in TaskWindows(Head(tasks.pending)) :
       \E fault \in TaskFaults, forecast \in BOOLEAN :
          Completed(Head(tasks.pending), metrics, fault, forecast,
              SubTask(Head(tasks.pending), history[Head(tasks.pending)],
                  metrics,
                  detect_anomalies(Head(tasks.pending),
                      history[Head(tasks.pending)], metrics, 0, <<>>, <<>>),
                  fault, forecast))
    /\ UNCHANGED <<alertingVars, mongo_available, alerts, anomalies,
                   api_sources, analyzers, analysis_pc>>

\* gather returns, the loop sleeps for the interval and starts over
EndCycle ==
    /\ analysis_pc = "gather"
    /\ tasks.pending = <<>>
    /\ analysis_pc' = "loop"
    /\ tasks' = [tasks EXCEPT !.cycles = @ + 1]
    /\ UNCHANGED <<alertingVars, mongo_available, alerts, anomalies,
                   api_sources, analyzers, history, analysis>>

\* stop_analysis if the sub-tasks of the cycle were left to themselves
StopAnalysis_leaving_subtasks ==
    /\ analysis_pc \in {"loop", "gather"}
    /\ analysis_pc' = "stopped"
    /\ UNCHANGED <<alertingVars, mongo_available, alerts, anomalies,
                   api_sources, analyzers, history, tasks, analysis>>

\* stop_analysis: the loop task is cancelled, and with it the gather and
\* the sub-tasks it waits for
StopAnalysis ==
    /\ analysis_pc \in {"loop", "gather"}
    /\ analysis_pc' = "stopped"
    /\ tasks' = [tasks EXCEPT !.pending = <<>>]
    /\ UNCHANGED <<alertingVars, mongo_available, alerts, anomalies,
                   api_sources, analyzers, history, analysis>>

AnalysisNext ==
    \/ \E api_id \in ApiIds : CreateSource(api_id)
    \/ \E api_id \in ApiIds : DeleteSource(api_id)
    \/ StartAnalysis
    \/ BeginCycle
    \/ RunTask
    \/ EndCycle
    \/ StopAnalysis

InitScheduler ==
    /\ mongo_available = TRUE
    /\ alerts = <<>>
    /\ anomalies = <<>>
    /\ InitCommon

SpecAnalysis == InitScheduler /\ [][AnalysisNext]_vars

----------------------------------------------------------------------------
(* Propagation detection (cross_environment_analyzer.py:407-520).  The     *)
(* `propagation` input of _detect_propagation_patterns above stands for    *)
(* what the operators of this section compute.  Error rates are in percent, *)
(* latencies in milliseconds, timestamps in seconds.                        *)

PropagationWindow == 1800
PropagationSeverity == 80

\* the environments of the metrics of one endpoint
PropagationEnvs == {"aws", "azure", "gcp"}

\* the first timestamp of the recent metrics of an environment
ChangeStamps == {0, 900, 1800, 2700}

\* lines 454-461: the error rates and the mean latencies of the history and
\* of the recent metrics of one environment
EnvProfiles ==
    {[historical_error_rate |-> her, recent_error_rate |-> rer,
      historical_rt |-> 100, recent_rt |-> rrt] :
        her \in {2}, rer \in {2, 6}, rrt \in {100, 160}}

\* lines 463-471: the change types recorded for an environment
change_type(s) ==
    (IF s.recent_error_rate > s.historical_error_rate * 2 /\ s.recent_error_rate > 5
     THEN <<"error_rate">> ELSE <<>>)
    \o (IF 2 * s.recent_rt > 3 * s.historical_rt
        THEN <<"response_time">> ELSE <<>>)

\* lines 445-478: env_changes, for the environments with a significant change
env_changes(stats) ==
    [env \in {e \in DOMAIN stats : change_type(stats[e]) # <<>>} |->
        [change_type |-> change_type(stats[env]),
         timestamp |-> stats[env].timestamp,
         error_rate |-> stats[env].recent_error_rate,
         response_time |-> stats[env].recent_rt]]

\* line 483: the orders sorted() can return; environments with the same
\* timestamp stay in the order the set of environments was iterated in
sorted_envs(changes) ==
    {o \in Orders(DOMAIN changes) :
        /\ Len(o) = Cardinality(DOMAIN changes)
        /\ \A i, j \in DOMAIN o :
              i < j => changes[o[i]].timestamp <= changes[o[j]].timestamp}

\* line 486-488: the pairs of environments the loop compares
EnvPairs(order) == {<<i, i + 1>> : i \in 1..(Len(order) - 1)}

\* lines 490-516: the anomaly of one pair, if any
propagation_anomaly(api_id, endpoint, changes, env1, env2) ==
    LET time_diff == changes[env2].timestamp - changes[env1].timestamp
        common_changes == Range(changes[env1].change_type)
                            \cap Range(changes[env2].change_type)
    IN IF time_diff <= PropagationWindow /\ common_changes # {}
       THEN <<[anomaly |-> create_anomaly(api_id, "cross_environment_propagation",
                              PropagationSeverity,
                              IF "response_time" \in common_changes
                              THEN changes[env2].response_time
                              ELSE changes[env2].error_rate,
                              0, 0, env2, endpoint),
               source_environment |-> env1,
               propagation_time_seconds |-> time_diff,
               change_type |-> common_changes]>>
       ELSE <<>>

\* lines 480-518: the anomalies of the sorted environments, in loop order
propagation_anomalies(api_id, endpoint, changes, order) ==
    IF Cardinality(DOMAIN changes) < 2 THEN <<>>
    ELSE Flatten([i \in 1..(Len(order) - 1) |->
            Flatten([j \in 1..Len(order) |->
                IF <<i, j>> \in EnvPairs(order)
                THEN propagation_anomaly(api_id, endpoint, changes,
                                         order[i], order[j])
                ELSE <<>>])])

\* _detect_propagation_patterns was called for an endpoint
PropagationInputs ==
    [has_history : BOOLEAN,
     stats : [PropagationEnvs ->
                {[historical_error_rate |-> s.historical_error_rate,
                  recent_error_rate |-> s.recent_error_rate,
                  historical_rt |-> s.historical_rt,
                  recent_rt |-> s.recent_rt,
                  timestamp |-> t] : s \in EnvProfiles, t \in ChangeStamps}]]

DetectPropagation ==
    /\ analysis.op = "propagation_input"
    /\ \E order \in sorted_envs(env_changes(analysis.stats)) :
          analysis' = [analysis EXCEPT
             !.op = "_detect_propagation_patterns",
             !.result = IF ~analysis.has_history THEN <<>>
                        ELSE propagation_anomalies("a1", "/a",
                                 env_changes(analysis.stats), order)]
    /\ UNCHANGED <<alertingVars, mongo_available, alerts, anomalies,
                   api_sources, analyzers, history, analysis_pc, tasks>>

InitPropagation ==
    /\ mongo_available = TRUE
    /\ alerts = <<>>
    /\ anomalies = <<>>
    /\ InitAlerting
    /\ api_sources = {}
    /\ analyzers = <<>>
    /\ history = NoHistory
    /\ analysis_pc = "none"
    /\ tasks = NoTasks
    /\ \E in \in PropagationInputs :
          analysis = [op |-> "propagation_input", has_history |-> in.has_history,
                      stats |-> in.stats, result |-> <<>>]

SpecPropagation == InitPropagation /\ [][DetectPropagation]_vars

----------------------------------------------------------------------------
(* Error-rate prediction (error_rate_analyzer.py:87-165).  The `forecast`  *)
(* input of predict_issues above stands for what the operators of this     *)
(* section compute for one endpoint group.  An error rate is the pair of    *)
(* the failed and of all metrics of a window; a confidence is in           *)
(* hundredths, rounded to the nearest.                                      *)

MinWindowSamples == 10
MaxConfidence == 90

\* the sizes of the most recent hour and of the hour before it
RecentCounts == {9, 10, 40}
PreviousCounts == {9, 10, 20}

\* the rates (recent errors, recent count, previous errors, previous count)
\* of these sizes with recent = 1.5 x previous for which the double
\* previous_error_rate * 1.5 of line 130 is below the double recent_error_rate
RoundsBelow ==
    {<<9, 10, 6, 10>>, <<9, 10, 12, 20>>, <<18, 40, 3, 10>>, <<36, 40, 6, 10>>,
     <<9, 40, 3, 20>>, <<18, 40, 6, 20>>, <<21, 40, 7, 20>>, <<36, 40, 12, 20>>}

\* the trend test if the rate had to double
increasing_trend_of_double(recent, previous) ==
    /\ recent.errors * previous.count > 2 * previous.errors * recent.count
    /\ 50 * recent.errors > recent.count

\* line 130: recent_error_rate > previous_error_rate * 1.5 and
\* recent_error_rate > 0.02
increasing_trend(recent, previous) ==
    /\ \/ 2 * recent.errors * previous.count > 3 * previous.errors * recent.count
       \/ <<recent.errors, recent.count, previous.errors, previous.count>>
             \in RoundsBelow
    /\ 50 * recent.errors > recent.count

\* lines 99-159 for the metrics of one endpoint: `total` of them in all
error_rate_prediction(total, recent, previous) ==
    IF total < ErrorRateMinDataPoints THEN <<>>
    ELSE IF recent.count < MinWindowSamples \/ previous.count < MinWindowSamples
    THEN <<>>
    ELSE IF increasing_trend(recent, previous)
    THEN <<[type |-> "error_rate", trend |-> "increasing",
            confidence |-> Min(MaxConfidence,
                               50 + (1000 * recent.errors) \div recent.count),
            metric_value |-> [num |-> 2 * recent.errors * previous.count
                                        - previous.errors * recent.count,
                              den |-> recent.count * previous.count],
            current_value |-> recent]>>
    ELSE <<>>

\* the error rates of windows of these sizes
Rates(counts) ==
    {r \in [errors : 0..40, count : counts] : r.errors <= r.count}

\* predict_issues of the error-rate analyzer on one endpoint group
PredictErrorRate ==
    /\ analysis.op = "trend_input"
    /\ analysis' = [analysis EXCEPT
          !.op = "predict_issues",
          !.result = error_rate_prediction(
                        analysis.recent.count + analysis.previous.count
                            + analysis.older,
                        analysis.recent, analysis.previous)]
    /\ UNCHANGED <<alertingVars, mongo_available, alerts, anomalies,
                   api_sources, analyzers, history, analysis_pc, tasks>>

InitTrend ==
    /\ mongo_available = TRUE
    /\ alerts = <<>>
    /\ anomalies = <<>>
    /\ InitAlerting
    /\ api_sources = {"a1"}
    /\ analyzers = <<[id |-> "a1", list |-> ApiAnalyzers]>>
    /\ history = NoHistory
    /\ analysis_pc = "none"
    /\ tasks = NoTasks
    /\ \E recent \in Rates(RecentCounts), previous \in Rates(PreviousCounts) :
       \E older \in {0, 2} :
          analysis = [op |-> "trend_input", recent |-> recent,
                      previous |-> previous, older |-> older, result |-> <<>>]

SpecTrend == InitTrend /\ [][PredictErrorRate]_vars

\* both managers of main.py from startup to shutdown, with one API source
\* and the anomalies earlier runs left
ShutdownNext ==
    \/ CreateSource("a1")
    \/ StartAnalysis \/ BeginCycle \/ RunTask \/ EndCycle \/ StopAnalysis
    \/ StartAlerting \/ AlertingCycle \/ StopAlerting

InitShutdown ==
    /\ mongo_available = TRUE
    /\ alerts = <<>>
    /\ anomalies \in StoredAnomalies
    /\ InitCommon

SpecShutdown == InitShutdown /\ [][ShutdownNext]_vars

----------------------------------------------------------------------------
(* Properties *)

\* the names `last.op` takes for the manager's lifecycle operations and for
\* the routes
ManagerOps == {"resolve_alert", "acknowledge_alert", "snooze_alert"}
RouteOps == {"route_acknowledge", "route_resolve", "route_snooze"}

\* the call l was a snooze_alert that updated the alert, made on the manager
\* or through the route
SnoozeDone(l) ==
    \/ l.op = "snooze_alert" /\ l.out = "done"
    \/ l.op = "route_snooze" /\ l.out = "200" /\ l.fault = "none"

\* get_active_alerts returns alert a under no filter
NotActive(a) ==
    \A api \in ApiFilters, env \in EnvFilters :
        a \notin Range(get_active_alerts(api, env))

\* alert_manager.py:175  alerts of this id pass the severity test
Sendable(id) == Lower(SeverityOf(id)) \in {"high", "critical"}

\* C1: once a persisted alert's status is resolved, no acknowledge, resolve
\* or snooze operation changes its status to anything other than resolved.
C1_ResolvedIsTerminal ==
    [][\A a \in DOMAIN alerts :
          alerts[a].status = "resolved" => alerts'[a].status = "resolved"]_vars

\* C3: when the alerting cycle runs twice in a row over the same unprocessed
\* anomalies and no anomaly arrives in between, the second run finds nothing
\* to process (the first run marked the batch processed).
C3_SecondRunFindsNothing ==
    (last.op = "_alerting_loop" /\ cycle.runs >= 2) => cycle.fetched = {}

\* C4 (as stated): a high or critical alert id handed to the notification
\* step twice in one run gets exactly one send_alert call on each channel.
C4_ExactlyOneSendPerChannel ==
    \A id \in AlertIds, c \in 1..Len(Notifiers) :
        (Sendable(id) /\ passes[id] >= 2 /\ ~notif.active)
            => Count(sent, Notifiers[c], id) = 1

\* C4 (amended): a high or critical alert id gets at most one send_alert call
\* on each channel, and exactly one once it was handed to the notification
\* step twice, as long as the id was not removed from the manager's cache
\* (by resolve_alert, snooze_alert or the trim) in that run.
C4_ExactlyOneSendUnlessEvicted ==
    \A id \in AlertIds, c \in 1..Len(Notifiers) :
        (Sendable(id) /\ id \notin evicted)
            => /\ Count(sent, Notifiers[c], id) <= 1
               /\ (passes[id] >= 2 /\ ~notif.active)
                     => Count(sent, Notifiers[c], id) = 1

\* an alert was handed over twice, stayed in the cache, and each channel was
\* called once
C4_PassedTwiceSentOnce ==
    \E id \in AlertIds :
        /\ Sendable(id) /\ passes[id] >= 2 /\ ~notif.active
        /\ id \notin evicted /\ id \in alert_cache["main"]
        /\ \A c \in 1..Len(Notifiers) : Count(sent, Notifiers[c], id) = 1

\* C5: after a snooze made through the HTTP API completed successfully, the
\* alert id is absent from the cache the running alerting loop consults.
C5_SnoozedAbsentFromLoopCache ==
    (last.op = "route_snooze" /\ last.out = "200" /\ last.fault = "none")
        => last.id \notin alert_cache["main"]

\* C6: right after snooze_alert updated an alert that was open or
\* acknowledged, get_active_alerts returns it under no filter, and an alert
\* whose status is snoozed is never returned.
C6_SnoozedNotActive ==
    /\ [][\A a \in DOMAIN alerts :
            (/\ alerts[a].status \in {"open", "acknowledged"}
             /\ SnoozeDone(last') /\ last'.id = a)
                => (alerts'[a].status = "snoozed" /\ NotActive(a)')]_vars
    /\ [](\A a \in DOMAIN alerts : alerts[a].status = "snoozed" => NotActive(a))

\* an alert was just snoozed while another alert is still active
C6_SnoozedWhileOtherActive ==
    /\ SnoozeDone(last)
    /\ last.id \in DOMAIN alerts
    /\ alerts[last.id].status = "snoozed"
    /\ get_active_alerts(<<>>, "any") # <<>>

\* C7: while MongoDB is unavailable, acknowledge, resolve and snooze return
\* with a warning and leave the alerts and the caches unchanged,
\* get_active_alerts returns the empty list, and an iteration of the loop
\* stores no alert, marks no anomaly and sends nothing.
C7_NoOpWhileUnavailable ==
    /\ [](~mongo_available =>
            \A api \in ApiFilters, env \in EnvFilters :
                get_active_alerts(api, env) = <<>>)
    /\ [][~mongo_available =>
            /\ last'.op \in ManagerOps =>
                 /\ last'.out = "unavailable"
                 /\ alerts' = alerts
                 /\ alert_cache' = alert_cache
            /\ last'.op = "_alerting_loop" =>
                 /\ alerts' = alerts
                 /\ anomalies' = anomalies
                 /\ sent' = sent
                 /\ notif' = notif]_vars

\* MongoDB is unavailable, the loop has run, and snooze_alert was called on
\* a stored alert whose id is in the cache
C7_CalledWhileUnavailable ==
    /\ ~mongo_available
    /\ last.op = "snooze_alert" /\ last.out = "unavailable"
    /\ last.id \in DOMAIN alerts
    /\ last.id \in alert_cache["main"]
    /\ cycle.outcome = "unavailable"
    /\ DOMAIN anomalies # {}

C9_SeverityBucket ==
    LET groups == _group_anomalies(get_unprocessed_anomalies(anomalies)) IN
    \A i \in 1..Len(groups) :
        LET g == groups[i].anomalies
            top == SeqMax([k \in 1..Len(g) |-> g[k].severity])
            made == _create_alert_from_group(groups[i].key, g, NextAlertId)
        IN /\ made.ok
           /\ made.alert.severity =
                (IF top >= 90 THEN "critical" ELSE IF top >= 70 THEN "high"
                 ELSE IF top >= 40 THEN "medium" ELSE "low")

\* C10: grouping a batch by (api id, type) and generating alerts yields one
\* alert per distinct pair, every anomaly id of the batch is in the anomaly
\* list of exactly one alert, and each alert's anomaly_count is the size of
\* its group.
C10_OneAlertPerGroup ==
    LET batch == get_unprocessed_anomalies(anomalies)
        pairs == {<<batch[i].api_id, batch[i].type>> : i \in 1..Len(batch)}
        made == generate_alerts(_group_anomalies(batch), NextAlertId)
    IN batch # <<>> =>
        /\ made.ok
        /\ Len(made.alerts) = Cardinality(pairs)
        /\ \A i \in 1..Len(batch) :
              Cardinality({k \in 1..Len(made.alerts) :
                  batch[i].id \in Range(made.alerts[k].anomalies)}) = 1
        /\ \A k \in 1..Len(made.alerts) :
              made.alerts[k].metadata.anomaly_count = Len(made.alerts[k].anomalies)

\* C11: every anomaly a detect_anomalies call returns has a severity
\* between 0 and 1 (0 and 100 hundredths), also for a response-time
\* outlier below its local expected value
C11_SeverityInUnitInterval ==
    analysis.op = "detect_anomalies" =>
        \A i \in DOMAIN analysis.result :
            analysis.result[i].severity \in 0..100

\* the analyzer calls
AnalyzerOps == {"detect_anomalies", "predict_issues"}

\* the call was given fewer metrics than the analyzer's min_data_points;
\* for the pattern analyzer, which sets none, fewer than any analyzer's
BelowMinimum(call) ==
    IF call.object[2] = "pattern"
    THEN \A kind \in {"response_time", "error_rate", "cross_environment"} :
            Len(call.metrics) < min_data_points(kind)
    ELSE Len(call.metrics) < min_data_points(call.object[2])

\* C12: a detect_anomalies or predict_issues call of any analyzer the
\* scheduler owns, given fewer metrics than min_data_points, returns an
\* empty list, raises nothing and leaves the analyzer's history as it was
C12_BelowMinimumReturnsEmpty ==
    [][analysis'.op \in AnalyzerOps /\ BelowMinimum(analysis') =>
        /\ analysis'.result = <<>>
        /\ analysis'.raised = "none"
        /\ history' = history]_vars

Unfailed(call, hist) ==
    IF call.op = "detect_anomalies"
    THEN detect_anomalies(call.object, hist, call.metrics, 0,
                          call.inputs.iforest, call.inputs.propagation).result
    ELSE predict_issues(call.object, hist, call.metrics, 0,
                        call.inputs.forecast).result

\* the keys of the groups the call worked on before the one that failed
KeysBefore(call) ==
    LET groups == PredictionGroups(call.object[2], call.metrics)
    IN {groups[g].key : g \in 1..(call.inputs.fault - 1)}

GroupOf(metrics, key) == SelectSeq(metrics, LAMBDA m : EndpointKey(m) = key)

EndpointKeys(metrics) == {EndpointKey(metrics[i]) : i \in DOMAIN metrics}

\* C16: for every (method, endpoint) group of at least min_data_points
\* metrics, the error-rate analyzer's detect_anomalies returns exactly one
\* high_error_rate anomaly when failures / total > 5%, with severity
\* min(1, 5 x rate), expected value 1% and threshold 5%, and none when the
\* rate is 5% or lower
C16_ErrorRateDetection ==
    (/\ analysis.op = "detect_anomalies"
     /\ analysis.object[2] = "error_rate"
     /\ ~analysis.logged) =>
        \A key \in EndpointKeys(analysis.metrics) :
            LET group == GroupOf(analysis.metrics, key)
                failures == ErrorCount(group)
                found == SelectSeq(analysis.result,
                            LAMBDA a : a.type = "high_error_rate" /\ a.endpoint = key)
            IN Len(group) >= ErrorRateMinDataPoints =>
                IF 100 * failures > 5 * Len(group)
                THEN /\ Len(found) = 1
                     /\ found[1].severity = Min(100, (500 * failures) \div Len(group))
                     /\ found[1].expected_value = 1
                     /\ found[1].threshold = 5
                ELSE found = <<>>

\* twenty metrics of one endpoint, two of them failed: one anomaly of
\* severity 0.5
C16_TenPercentFailed ==
    /\ analysis.op = "detect_anomalies"
    /\ analysis.object[2] = "error_rate"
    /\ Len(analysis.metrics) = 20
    /\ ErrorCount(analysis.metrics) = 2
    /\ Len(analysis.result) = 1
    /\ analysis.result[1].severity = 50

\* the mean of the metrics of s1 is above 1.3 times the mean of those of s2
Above130Percent(s1, s2) == 10 * s1.sum * s2.count > 13 * s2.sum * s1.count

\* C17: for every pair of environments of one (api, endpoint), each with
\* at least min_data_points samples, whose slower mean latency is above
\* 1.3 times the faster mean, detect_anomalies returns exactly one
\* cross_environment_response_time anomaly for the pair, attributed to the
\* slower environment, with the faster mean as expected value and 1.3
\* times the faster mean as threshold
C17_LatencyDiscrepancy ==
    (/\ analysis.op = "detect_anomalies"
     /\ analysis.object[2] = "cross_environment"
     /\ ~analysis.logged) =>
        \A key \in EndpointKeys(analysis.metrics) :
        \A slow, fast \in _get_environments(analysis.metrics) :
            LET of(env) == SelectSeq(GroupOf(analysis.metrics, key),
                                    LAMBDA m : m.environment = env)
                s == EnvStats([metrics |-> of(slow)])
                f == EnvStats([metrics |-> of(fast)])
                found == SelectSeq(analysis.result,
                            LAMBDA a : /\ a.type = "cross_environment_response_time"
                                       /\ a.endpoint = key
                                       /\ a.environment \in {slow, fast})
            IN (/\ s.count >= CrossEnvMinDataPoints
                /\ f.count >= CrossEnvMinDataPoints
                /\ Above130Percent(s, f)) =>
                    /\ Len(found) = 1
                    /\ found[1].environment = slow
                    /\ found[1].expected_value = f.sum \div f.count
                    /\ found[1].threshold = (13 * f.sum) \div (10 * f.count)

\* C17 (amended): for every pair of environments of one (api, endpoint),
\* each with at least min_data_points samples, detect_anomalies returns
\* exactly one cross_environment_response_time anomaly for the pair when
\* the two mean latencies differ by more than 30% of their average,
\* attributed to the slower environment, with the faster mean as expected
\* value and 1.3 times the faster mean as threshold, and none otherwise
C17_LatencyDiscrepancyOfAverage ==
    (/\ analysis.op = "detect_anomalies"
     /\ analysis.object[2] = "cross_environment"
     /\ ~analysis.logged) =>
        \A key \in EndpointKeys(analysis.metrics) :
        \A slow, fast \in _get_environments(analysis.metrics) :
            LET of(env) == SelectSeq(GroupOf(analysis.metrics, key),
                                    LAMBDA m : m.environment = env)
                s == EnvStats([metrics |-> of(slow)])
                f == EnvStats([metrics |-> of(fast)])
                a == s.sum * f.count
                b == f.sum * s.count
                found == SelectSeq(analysis.result,
                            LAMBDA x : /\ x.type = "cross_environment_response_time"
                                       /\ x.endpoint = key
                                       /\ x.environment \in {slow, fast})
            IN (/\ s.count >= CrossEnvMinDataPoints
                /\ f.count >= CrossEnvMinDataPoints
                /\ a > b) =>
                    IF 20 * (a - b) > 3 * (a + b)
                    THEN /\ Len(found) = 1
                         /\ found[1].environment = slow
                         /\ found[1].expected_value = f.sum \div f.count
                         /\ found[1].threshold = (13 * f.sum) \div (10 * f.count)
                    ELSE found = <<>>

\* twenty samples of 100 ms from aws and twenty of 136 ms from gcp: one
\* anomaly, attributed to gcp
C17_SlowerBy36Percent ==
    /\ analysis.op = "detect_anomalies"
    /\ analysis.object[2] = "cross_environment"
    /\ Len(analysis.metrics) = 40
    /\ \E i \in DOMAIN analysis.metrics : analysis.metrics[i].response_time = 136
    /\ Len(analysis.result) = 1
    /\ analysis.result[1].environment = "gcp"
    /\ analysis.result[1].expected_value = 100
    /\ analysis.result[1].threshold = 130

\* the step is the end of a sub-task of the analysis cycle
TaskStep ==
    /\ analysis_pc = "gather"
    /\ analysis_pc' = "gather"
    /\ tasks' # tasks

\* the step is the head of a cycle: reconciliation and creation of sub-tasks
ReconcileStep ==
    /\ analysis_pc = "loop"
    /\ analysis_pc' = "gather"

\* the APIs of the sub-tasks in a list
TaskApis(pending) == {pending[i][1] : i \in DOMAIN pending}

\* C14: failure isolation in the analysis cycle. The end of a sub-task,
\* failed or not, leaves every other sub-task of the cycle to run; a
\* sub-task that logged no error has written to the database all the
\* anomalies and predictions its analyzer returned, whatever the other
\* sub-tasks of the cycle came to; and the gather of a cycle ends only when
\* no sub-task is left, with the loop at its next iteration.
C14_FailureIsolated ==
    [][/\ TaskStep =>
            /\ tasks'.pending = Tail(tasks.pending)
            /\ analysis'.object = Head(tasks.pending)
            /\ analysis'.error = "none" =>
                    /\ analysis'.stored = analysis'.result
                    /\ analysis'.stored_predictions = analysis'.predicted
       /\ (analysis_pc = "gather" /\ analysis_pc' \notin {"gather", "stopped"}) =>
            /\ tasks.pending = <<>>
            /\ analysis_pc' = "loop"]_vars

\* a sub-task stored its anomalies after another one of the cycle failed
C14_StoredAfterFailure ==
    /\ analysis_pc = "gather"
    /\ analysis.op \in {"_analyze_and_store", "_run_global_analyzer"}
    /\ tasks.failed
    /\ analysis.error = "none"
    /\ analysis.stored # <<>>
    /\ tasks.pending # <<>>

\* C15: reconciliation tears down removed APIs. After the head of a cycle,
\* an API that had analyzers and is no longer among the configured sources
\* has no entry in the mapping, cleanup was invoked on each of its
\* analyzers, and no sub-task of the cycle is for it.
C15_RemovedApiTornDown ==
    [][ReconcileStep =>
        \A api_id \in Range(AnalyzerIds(analyzers)) \ api_sources :
            /\ api_id \notin Range(AnalyzerIds(analyzers'))
            /\ {<<api_id, ApiAnalyzers[k]>> : k \in DOMAIN ApiAnalyzers}
                    \subseteq analysis'.cleaned
            /\ api_id \notin TaskApis(tasks'.pending)]_vars

\* C19: from the acknowledged state the only status an alert moves to is
\* resolved: no acknowledge or snooze operation makes an acknowledged alert
\* snoozed or open.
C19_AcknowledgedOnlyResolves ==
    [][\A a \in DOMAIN alerts :
          alerts[a].status = "acknowledged" =>
              alerts'[a].status \in {"acknowledged", "resolved"}]_vars

\* C20: only high and critical alerts notify. No channel's send_alert was
\* called for an alert whose severity is not high or critical, and the id
\* of such an alert is in no manager's dedup cache.
C20_OnlyHighCriticalNotify ==
    \A id \in AlertIds :
        ~Sendable(id) =>
            /\ \A c \in 1..Len(Notifiers) : Count(sent, Notifiers[c], id) = 0
            /\ \A m \in Managers : id \notin alert_cache[m]

\* a notification step that was handed an alert below high severity and a
\* sendable one has ended: only the sendable one was sent
C20_LowSeverityPassedOver ==
    \E id, other \in AlertIds :
        /\ ~Sendable(id) /\ passes[id] >= 1
        /\ Sendable(other) /\ passes[other] >= 1
        /\ ~notif.active
        /\ \A c \in 1..Len(Notifiers) :
              Count(sent, Notifiers[c], id) = 0 /\ Count(sent, Notifiers[c], other) >= 1
        /\ id \notin alert_cache["main"]

\* C18: dedup cache trimming. Whenever the add of a notified alert's id
\* makes the cache hold more than 1000 ids, the cache is trimmed in the same
\* step to exactly 500 ids, the 500 added last, the id just added among them.
C18_TrimKeepsMostRecent ==
    [][(/\ passes' # passes
        /\ sent' # sent
        /\ Cardinality(alert_cache["main"] \cup {NextAlert}) > CacheLimit)
       => /\ Cardinality(alert_cache'["main"]) = CacheKeep
          /\ NextAlert \in alert_cache'["main"]
          /\ \A x \in (alert_cache["main"] \cup {NextAlert}) \ alert_cache'["main"] :
                \A y \in alert_cache'["main"] : x < y]_vars

\* the step is the end of a send_alert call of the notification step
SendStep == notif.active /\ notif' # notif

FirstChannelPending(a) ==
    notif.active /\ notif.ch = 1 /\ notif.batch[notif.i].id = a

Failures == {"fetch_error", "error"}

Propagated(changes, e1, e2) ==
    /\ e1 \in DOMAIN changes /\ e2 \in DOMAIN changes /\ e1 # e2
    /\ Range(changes[e1].change_type) \cap Range(changes[e2].change_type) # {}
    /\ changes[e1].timestamp <= changes[e2].timestamp
    /\ changes[e2].timestamp - changes[e1].timestamp <= PropagationWindow

\* the result r holds a propagation anomaly from source to target
Reported(r, changes, source, target) ==
    \E k \in DOMAIN r :
        /\ r[k].anomaly.type = "cross_environment_propagation"
        /\ r[k].anomaly.severity = PropagationSeverity
        /\ r[k].anomaly.environment = target
        /\ r[k].source_environment = source
        /\ r[k].propagation_time_seconds
              = changes[target].timestamp - changes[source].timestamp
        /\ r[k].propagation_time_seconds \in 0..PropagationWindow

\* C25: propagation detection. For an endpoint with history, whenever two
\* environments both show a significant change of a common kind with first
\* timestamps at most 30 minutes apart, the result holds a propagation
\* anomaly of severity 0.8 for the later environment that names the earlier
\* one as its source and the elapsed seconds, also when a third environment
\* changed in between.
C25_PropagationDetected ==
    (analysis.op = "_detect_propagation_patterns" /\ analysis.has_history) =>
        \A e1, e2 \in PropagationEnvs :
            Propagated(env_changes(analysis.stats), e1, e2) =>
                \/ Reported(analysis.result, env_changes(analysis.stats), e1, e2)
                \/ /\ analysis.stats[e1].timestamp = analysis.stats[e2].timestamp
                   /\ Reported(analysis.result, env_changes(analysis.stats), e2, e1)

\* predict_issues returned for a group with enough samples in both hours
TrendTested ==
    /\ analysis.op = "predict_issues"
    /\ analysis.recent.count >= MinWindowSamples
    /\ analysis.previous.count >= MinWindowSamples

\* recent error rate minus 1.5 x previous error rate, times a positive number
TrendExcess ==
    2 * analysis.recent.errors * analysis.previous.count
        - 3 * analysis.previous.errors * analysis.recent.count

\* the result is one error_rate prediction with the predicted value
\* recent + (recent - previous) and the confidence min(0.9, 0.5 + recent/0.1)
TrendPredicted ==
    /\ Len(analysis.result) = 1
    /\ analysis.result[1].type = "error_rate"
    /\ analysis.result[1].metric_value.num * analysis.recent.count
            * analysis.previous.count
         = (2 * analysis.recent.errors * analysis.previous.count
              - analysis.previous.errors * analysis.recent.count)
            * analysis.result[1].metric_value.den
    /\ analysis.result[1].confidence
         = IF 100 * analysis.recent.errors >= 4 * analysis.recent.count THEN 90
           ELSE 50 + (1000 * analysis.recent.errors) \div analysis.recent.count

\* C26 as stated: the prediction is emitted exactly when the recent rate is
\* at least 1.5 x the previous rate, equality included, and above 2%.
C26_TriggerInclusive ==
    TrendTested =>
        IF TrendExcess >= 0 /\ 50 * analysis.recent.errors > analysis.recent.count
        THEN TrendPredicted
        ELSE analysis.result = <<>>

\* C26: error-rate prediction trigger. For a group with enough samples in
\* both hours, a recent rate above 2% that is more than 1.5 x the previous
\* rate yields one prediction, with value recent + (recent - previous) and
\* confidence min(0.9, 0.5 + recent/0.1); a recent rate below 1.5 x the
\* previous rate or not above 2% yields none; a recent rate equal to 1.5 x
\* the previous rate yields none unless the double product rounds below it.
C26_TriggerStrict ==
    TrendTested =>
        IF 50 * analysis.recent.errors <= analysis.recent.count THEN analysis.result = <<>>
        ELSE IF TrendExcess > 0 THEN TrendPredicted
        ELSE IF TrendExcess < 0 THEN analysis.result = <<>>
        ELSE analysis.result = <<>> \/ TrendPredicted

\* the recent rate 3/10 is 1.5 x the previous rate 2/10, and nothing is
\* predicted
C26_EqualityNotPredicted ==
    /\ TrendTested
    /\ analysis.recent = [errors |-> 3, count |-> 10]
    /\ analysis.previous = [errors |-> 2, count |-> 10]
    /\ analysis.result = <<>>

\* the fields of an alert document no lifecycle operation writes
FrameFields ==
    {"severity", "anomalies", "apis", "environments", "title", "created_at"}

\* C27: lifecycle operations only change status and metadata. Whatever
\* acknowledge, resolve or snooze call is made, on the manager or through a
\* route, every alert of the store stays in the store with its severity,
\* anomaly ids, affected apis, environments, title and created-at unchanged
\* and with every metadata key it had.
C27_LifecycleFrame ==
    [][\A a \in DOMAIN alerts :
          /\ a \in DOMAIN alerts'
          /\ \A f \in FrameFields :
                /\ f \in DOMAIN alerts'[a]
                /\ alerts'[a][f] = alerts[a][f]
          /\ alerts[a].metadata \subseteq alerts'[a].metadata]_vars

\* a snooze_alert call updated an alert: the alert has the metadata key it
\* was stored with and the keys the call added
C27_SnoozedKeepsMetadata ==
    /\ SnoozeDone(last)
    /\ last.id \in DOMAIN alerts
    /\ alerts[last.id].status = "snoozed"
    /\ {"anomaly_count", "snoozed_by"} \subseteq alerts[last.id].metadata
    /\ alerts[last.id].severity = SeverityOf(last.id)

\* anomaly i is stored and not processed
Unprocessed(i) == i \in DOMAIN anomalies /\ ~anomalies[i].processed

\* anomaly i is marked processed and a stored alert lists it
Alerted(i) ==
    /\ i \in DOMAIN anomalies /\ anomalies[i].processed
    /\ \E a \in DOMAIN alerts : i \in Range(alerts[a].anomalies)

\* C28: progress of the alerting pipeline. With MongoDB available and the
\* alerting loop scheduled again and again, every anomaly stored with
\* processed = false is eventually listed by a stored alert and marked
\* processed.
C28_EveryAnomalyAlerted ==
    \A i \in 1..MaxAnoms : Unprocessed(i) ~> Alerted(i)

\* C29: reconciliation keeps the APIs that were not removed. At the head of
\* a cycle, an API that has analyzers and is still among the configured
\* sources keeps its entry in the mapping, cleanup is invoked on none of its
\* analyzers, and the sub-tasks of the cycle include its own.
C29_UnchangedApiKept ==
    [][ReconcileStep =>
        \A api_id \in Range(AnalyzerIds(analyzers)) \cap api_sources :
            /\ api_id \in Range(AnalyzerIds(analyzers'))
            /\ \A k \in DOMAIN ApiAnalyzers :
                  <<api_id, ApiAnalyzers[k]>> \notin analysis'.cleaned
            /\ api_id \in TaskApis(tasks'.pending)]_vars

\* C30: group-key round trip. In the groups of the unprocessed batch, the
\* anomalies of one group have the same api id and the same type, and
\* splitting the key of the group gives that api id and that type, also
\* for an api id that contains ":".
C30_GroupKeyRoundTrip ==
    LET groups == _group_anomalies(get_unprocessed_anomalies(anomalies)) IN
    \A i \in 1..Len(groups) :
        \A k \in 1..Len(groups[i].anomalies) :
            /\ groups[i].anomalies[k].api_id = groups[i].anomalies[1].api_id
            /\ groups[i].anomalies[k].type = groups[i].anomalies[1].type
            /\ SplitKey(groups[i].key).api_id = groups[i].anomalies[k].api_id
            /\ SplitKey(groups[i].key).anomaly_type = groups[i].anomalies[k].type

====
